---- MODULE Spec2Model ----
(***************************************************************************)
(* The multi-strategy translation engine of backend/translator.py          *)
(* (EnhancedTranslationEngine): the adaptive feedback cache, the durable   *)
(* feedback file and the seven-stage translate pipeline.                   *)
(*                                                                         *)
(* Text is a sequence of one-character strings, so that the string         *)
(* operations of the code (strip, split, lower, replace, regex match,      *)
(* f-string concatenation) are computed and not assumed.                   *)
(***************************************************************************)
EXTENDS Integers, Sequences, FiniteSets, TLC

----------------------------------------------------------------------------
(* Python string primitives *)

Uppers == <<"A","B","C","D","E","F","G","H","I","J","K","L","M",
            "N","O","P","Q","R","S","T","U","V","W","X","Y","Z">>

Lowers == <<"a","b","c","d","e","f","g","h","i","j","k","l","m",
            "n","o","p","q","r","s","t","u","v","w","x","y","z">>

DigitChars == {"0","1","2","3","4","5","6","7","8","9"}

Range(s) == {s[i] : i \in 1..Len(s)}

\* str.isspace for one character
is_space(c) == c \in {" ", "\t", "\n"}

\* the regex class \w
is_word(c) == c \in Range(Uppers) \cup Range(Lowers) \cup DigitChars \cup {"_"}

lower_char(c) ==
    IF c \in Range(Uppers)
      THEN Lowers[CHOOSE i \in 1..Len(Uppers) : Uppers[i] = c]
      ELSE c

\* str.lower()
lower(s) == [i \in 1..Len(s) |-> lower_char(s[i])]

all_word(s) == \A i \in 1..Len(s) : is_word(s[i])

all_space(s) == \A i \in 1..Len(s) : is_space(s[i])

\* s[i:] and s[:i] of Python, 0-based cut i
drop(s, i) == SubSeq(s, i + 1, Len(s))

take(s, i) == SubSeq(s, 1, i)

starts_with(s, p) == Len(p) <= Len(s) /\ take(s, Len(p)) = p

RECURSIVE lstrip(_)
lstrip(s) == IF s # <<>> /\ is_space(Head(s)) THEN lstrip(Tail(s)) ELSE s

RECURSIVE rstrip(_)
rstrip(s) ==
    IF s # <<>> /\ is_space(s[Len(s)]) THEN rstrip(take(s, Len(s) - 1)) ELSE s

\* str.strip()
strip(s) == rstrip(lstrip(s))

\* the first whitespace-free run of s, s not starting with whitespace
RECURSIVE first_token(_)
first_token(s) ==
    IF s = <<>> \/ is_space(Head(s)) THEN <<>>
    ELSE <<Head(s)>> \o first_token(Tail(s))

\* str.split() with no argument: runs of whitespace separate, no empty tokens
RECURSIVE split(_)
split(s) ==
    LET t == lstrip(s) IN
    IF t = <<>> THEN <<>>
    ELSE LET w == first_token(t) IN <<w>> \o split(drop(t, Len(w)))

\* sep.join(parts)
RECURSIVE join(_, _)
join(sep, parts) ==
    IF parts = <<>> THEN <<>>
    ELSE IF Len(parts) = 1 THEN parts[1]
    ELSE parts[1] \o sep \o join(sep, Tail(parts))

\* str.replace(old, new): all non-overlapping occurrences, left to right
RECURSIVE replace(_, _, _)
replace(s, old, new) ==
    IF s = <<>> THEN <<>>
    ELSE IF starts_with(s, old) THEN new \o replace(drop(s, Len(old)), old, new)
    ELSE <<Head(s)>> \o replace(Tail(s), old, new)

\* old in s
RECURSIVE contains(_, _)
contains(s, old) ==
    IF Len(s) < Len(old) THEN FALSE
    ELSE starts_with(s, old) \/ contains(Tail(s), old)

\* re.sub(r'[^\w]', '', s)
RECURSIVE strip_non_word(_)
strip_non_word(s) ==
    IF s = <<>> THEN <<>>
    ELSE IF is_word(Head(s)) THEN <<Head(s)>> \o strip_non_word(Tail(s))
    ELSE strip_non_word(Tail(s))

SP == <<" ">>

----------------------------------------------------------------------------
(* Direction values, the dictionary rows and the rule tables *)

FORWARD == <<"b","a","n","g","l","i","s","h","_","t","o","_","e","n","g","l","i","s","h">>

REVERSE == <<"e","n","g","l","i","s","h","_","t","o","_","b","a","n","g","l","i","s","h">>

\* rows <<banglish, english>> of the translations table
Dictionary == <<
    <<<<"k","e","m","o","n"," ","a","c","h","o">>,
      <<"h","o","w"," ","a","r","e"," ","y","o","u">>>>,
    <<<<"a","m","i"," ","t","o","m","a","k","e"," ","b","h","a","l","o"," ","b","a","s","h","i">>,
      <<"I"," ","l","o","v","e"," ","y","o","u">>>>,
    <<<<"k","i"," ","k","o","r","o">>,
      <<"w","h","a","t"," ","a","r","e"," ","y","o","u"," ","d","o","i","n","g">>>>,
    <<<<"d","h","o","n","n","o","b","a","d">>,
      <<"t","h","a","n","k"," ","y","o","u">>>>,
    <<<<"b","h","a","l","o"," ","a","c","h","i">>,
      <<"I"," ","a","m"," ","f","i","n","e">>>>,
    <<<<"t","u","m","i">>,
      <<"y","o","u">>>>,
    <<<<"a","m","i">>,
      <<"I">>>>,
    <<<<"b","a","r","i">>,
      <<"h","o","m","e">>>>,
    <<<<"m","a","c","h">>,
      <<"f","i","s","h">>>>,
    <<<<"b","o","r","o">>,
      <<"b","i","g">>>>,
    <<<<"c","h","o","t","o">>,
      <<"s","m","a","l","l">>>> >>

\* slang token -> canonical text, in declaration order
slang_map == <<
    <<<<"g","o","n","n","a">>, <<"g","o","i","n","g"," ","t","o">>>>,
    <<<<"w","a","n","n","a">>, <<"w","a","n","t"," ","t","o">>>>,
    <<<<"g","o","t","t","a">>, <<"g","o","t"," ","t","o">>>>,
    <<<<"k","i","n","d","a">>, <<"k","i","n","d"," ","o","f">>>>,
    <<<<"s","o","r","t","a">>, <<"s","o","r","t"," ","o","f">>>>,
    <<<<"u">>, <<"y","o","u">>>>,
    <<<<"u","r">>, <<"y","o","u","r">>>>,
    <<<<"r">>, <<"a","r","e">>>>,
    <<<<"n">>, <<"a","n","d">>>>,
    <<<<"c","u","z">>, <<"b","e","c","a","u","s","e">>>>,
    <<<<"p","l","z">>, <<"p","l","e","a","s","e">>>>,
    <<<<"t","h","x">>, <<"t","h","a","n","k","s">>>>,
    <<<<"t","h","o">>, <<"t","h","o","u","g","h">>>>,
    <<<<"k">>, <<"k","i">>>>,
    <<<<"k","m","n">>, <<"k","e","m","o","n">>>>,
    <<<<"a","m","r">>, <<"a","m","a","r">>>>,
    <<<<"t","m","r">>, <<"t","o","m","a","r">>>>,
    <<<<"a","p","n","r">>, <<"a","p","n","a","r">>>>,
    <<<<"k","e","m","o","n">>, <<"k","e","m","o","n">>>> >>

\* (substring, replacement) pairs in dict order
phonetic_map == <<
    <<<<"p","h">>, <<"f">>>>,
    <<<<"t","h">>, <<"t">>>>,
    <<<<"c","k">>, <<"k">>>>,
    <<<<"c","h">>, <<"c">>>>,
    <<<<"s","h">>, <<"s">>>>,
    <<<<"g","h">>, <<"g">>>>,
    <<<<"k","h">>, <<"k">>>>,
    <<<<"b","h">>, <<"b">>>>,
    <<<<"d","h">>, <<"d">>>>,
    <<<<"j","h">>, <<"j">>>>,
    <<<<"o","o">>, <<"u">>>>,
    <<<<"e","e">>, <<"i">>>> >>

demo_phrases == <<
    <<"k","e","m","o","n"," ","a","c","h","o">>,
    <<"a","m","i"," ","t","o","m","a","k","e"," ","b","h","a","l","o"," ","b","a","s","h","i">>,
    <<"k","i"," ","k","o","r","o">>,
    <<"d","h","o","n","n","o","b","a","d">>,
    <<"b","h","a","l","o"," ","a","c","h","i">>,
    <<"k","i"," ","k","h","a","b","a">>,
    <<"k","o","t","h","a","y"," ","j","a","c","h","c","h","o">> >>


----------------------------------------------------------------------------
(* Confidence values are exact rationals [num, den] in lowest terms *)

RECURSIVE gcd(_, _)
gcd(a, b) == IF b = 0 THEN a ELSE gcd(b, a % b)

Q(n, d) == LET g == gcd(n, d) IN [num |-> n \div g, den |-> d \div g]

q_mul(a, b) == Q(a.num * b.num, a.den * b.den)

q_le(a, b) == a.num * b.den <= b.num * a.den

q_min(a, b) == IF q_le(a, b) THEN a ELSE b

----------------------------------------------------------------------------
(* The dictionary lookup collaborator (db_lookup) *)

NotFound == [tag |-> "none", col |-> "", val |-> <<>>]

Raised == [tag |-> "raise", col |-> "", val |-> <<>>]

Found(c, v) == [tag |-> "row", col |-> c, val |-> v]

RECURSIVE first_row(_, _, _)
first_row(rows, key, text) ==
    IF rows = <<>> THEN <<>>
    ELSE IF lower(Head(rows)[key]) = lower(text) THEN Head(rows)
    ELSE first_row(Tail(rows), key, text)

\* DatabaseManager.find_translation: case-insensitive match on the column of
\* the direction, the other column returned under its own name; any other
\* direction value finds nothing
find_translation(query, direction) ==
    LET fetched(row, col, other) ==
            IF row # <<>> THEN Found(col, row[other]) ELSE NotFound
    IN IF direction = FORWARD THEN
           fetched(first_row(Dictionary, 1, lower(query)), "english", 2)
       ELSE IF direction = REVERSE THEN
           fetched(first_row(Dictionary, 2, lower(query)), "banglish", 1)
       ELSE NotFound

\* the injected lookup function: it raises on the texts of fault (the
\* collaborator failing), and is find_translation otherwise
db_lookup(query, direction, fault) ==
    IF query \in fault THEN Raised ELSE find_translation(query, direction)

\* one recorded call of the collaborator
Call(stage, query, direction) == <<stage, query, direction>>

\* dict["key"] on a lookup record: the value, or a KeyError
has_col(r, c) == r.tag = "row" /\ r.col = c

----------------------------------------------------------------------------
(* Normalizers *)

RECURSIVE slang_value(_, _)
slang_value(m, w) ==
    IF m = <<>> THEN <<>>
    ELSE IF Head(m)[1] = w THEN <<Head(m)[2]>>
    ELSE slang_value(Tail(m), w)

\* a variant of normalize_word that passes on the cleaned form of a word
\* that is no slang
normalize_word_cleaned(word) ==
    LET clean_word == strip_non_word(lower(word))
        mapped(hit) == IF hit # <<>> THEN hit[1] ELSE clean_word
    IN mapped(slang_value(slang_map, clean_word))

normalize_word(word) ==
    LET clean_word == strip_non_word(lower(word))
        mapped(hit) == IF hit # <<>> THEN hit[1] ELSE word
    IN mapped(slang_value(slang_map, clean_word))

normalize_slang(text) ==
    LET words == split(text) IN
    join(SP, [i \in 1..Len(words) |-> normalize_word(words[i])])

\* a variant of phonetic_apply that goes through the rules from the last one
RECURSIVE phonetic_apply_backwards(_, _)
phonetic_apply_backwards(rules, normalized) ==
    IF rules = <<>> THEN normalized
    ELSE LET old == rules[Len(rules)][1]
             new == rules[Len(rules)][2]
         IN phonetic_apply_backwards(SubSeq(rules, 1, Len(rules) - 1),
                IF contains(normalized, old) THEN replace(normalized, old, new)
                ELSE normalized)

RECURSIVE phonetic_apply(_, _)
phonetic_apply(rules, normalized) ==
    IF rules = <<>> THEN normalized
    ELSE LET old == Head(rules)[1]
             new == Head(rules)[2]
         IN phonetic_apply(Tail(rules),
                IF contains(normalized, old) THEN replace(normalized, old, new)
                ELSE normalized)

phonetic_normalize(text) == phonetic_apply(phonetic_map, lower(text))

----------------------------------------------------------------------------
(* Edit distance *)

min3(a, b, c) ==
    IF a <= b /\ a <= c THEN a ELSE IF b <= c THEN b ELSE c

RECURSIVE lev_row(_, _, _, _)
lev_row(previous_row, c1, s2, current_row) ==
    IF Len(current_row) = Len(s2) + 1 THEN current_row
    ELSE LET j == Len(current_row)
             insertions == previous_row[j + 1] + 1
             deletions == current_row[j] + 1
             substitutions == previous_row[j] + (IF c1 # s2[j] THEN 1 ELSE 0)
         IN lev_row(previous_row, c1, s2,
                    Append(current_row, min3(insertions, deletions, substitutions)))

RECURSIVE lev_rows(_, _, _, _)
lev_rows(s1, s2, i, previous_row) ==
    IF i > Len(s1) THEN previous_row[Len(previous_row)]
    ELSE LET current_row == lev_row(previous_row, s1[i], s2, <<i>>) IN
         \* the test evaluates the row before the next one is started
         IF Len(current_row) = Len(s2) + 1
           THEN lev_rows(s1, s2, i + 1, current_row)
           ELSE -1

levenshtein_distance(s1, s2) ==
    LET a == IF Len(s1) < Len(s2) THEN s2 ELSE s1
        b == IF Len(s1) < Len(s2) THEN s1 ELSE s2
    IN IF Len(b) = 0 THEN Len(a)
       ELSE lev_rows(a, b, 1, [k \in 1..(Len(b) + 1) |-> k - 1])

----------------------------------------------------------------------------
(* Results and stage outcomes *)

NoResult ==
    [translation |-> <<>>, confidence |-> Q(0, 1), method |-> "none", meta |-> <<>>]

Result(t, c, m, meta) ==
    [translation |-> t, confidence |-> c, method |-> m, meta |-> meta]

\* what a stage or a whole call ends with: a result, None, or an exception
Returned(r, calls) == [ret |-> "result", res |-> r, calls |-> calls]

ReturnedNone(calls) == [ret |-> "none", res |-> NoResult, calls |-> calls]

Raises(calls) == [ret |-> "raise", res |-> NoResult, calls |-> calls]

----------------------------------------------------------------------------
(* Step 4: fuzzy matching *)

FuzzyThreshold == Q(8, 10)

FuzzyFactor == Q(9, 10)

\* a variant of similarity_of that divides by the length of the query
similarity_of_query_length(query, phrase) ==
    LET distance == levenshtein_distance(lower(query), lower(phrase))
    IN IF Len(query) > distance THEN Q(Len(query) - distance, Len(query)) ELSE Q(0, 1)

similarity_of(query, phrase) ==
    LET distance == levenshtein_distance(lower(query), lower(phrase))
        max_len == IF Len(query) > Len(phrase) THEN Len(query) ELSE Len(phrase)
    IN IF max_len > 0 THEN Q(max_len - distance, max_len) ELSE Q(0, 1)

\* the loop over demo_phrases: the candidates in phrase order, the calls made,
\* and whether a lookup raised
RECURSIVE fuzzy_scan(_, _, _, _, _, _)
fuzzy_scan(phrases, query, threshold, fault, candidates, calls) ==
    LET phrase == Head(phrases)
        calls2 == Append(calls, Call("fuzzy", phrase, FORWARD))
        looked_up(similarity, translation_result) ==
            IF translation_result.tag = "raise" THEN
                [raised |-> TRUE, candidates |-> candidates, calls |-> calls2]
            ELSE IF translation_result.tag = "row" THEN
                fuzzy_scan(Tail(phrases), query, threshold, fault,
                    Append(candidates,
                        [phrase |-> phrase, translation |-> translation_result.val,
                         similarity |-> similarity]),
                    calls2)
            ELSE fuzzy_scan(Tail(phrases), query, threshold, fault, candidates, calls2)
        scored(similarity) ==
            IF q_le(threshold, similarity)
              THEN looked_up(similarity, db_lookup(phrase, FORWARD, fault))
              ELSE fuzzy_scan(Tail(phrases), query, threshold, fault, candidates, calls)
    IN IF phrases = <<>>
         THEN [raised |-> FALSE, candidates |-> candidates, calls |-> calls]
         ELSE scored(similarity_of(query, phrase))

\* max(candidates, key=similarity): the first of the maximal ones
RECURSIVE best_of(_, _)
best_of(candidates, best) ==
    IF candidates = <<>> THEN best
    ELSE IF q_le(Head(candidates).similarity, best.similarity)
         THEN best_of(Tail(candidates), best)
         ELSE best_of(Tail(candidates), Head(candidates))

fuzzy_match(query, threshold, fault) ==
    LET chosen(best, calls) ==
            Returned(Result(best.translation, q_mul(best.similarity, FuzzyFactor), "fuzzy",
                            <<<<"original", best.phrase>>,
                              <<"similarity", best.similarity>>>>),
                     calls)
        scanned(scan) ==
            IF scan.raised THEN Raises(scan.calls)
            ELSE IF scan.candidates # <<>> THEN
                chosen(best_of(Tail(scan.candidates), Head(scan.candidates)), scan.calls)
            ELSE ReturnedNone(scan.calls)
    IN scanned(fuzzy_scan(demo_phrases, query, threshold, fault, <<>>, <<>>))

----------------------------------------------------------------------------
(* Step 5: compound word splitting *)

\* a variant of compound_rules with the adjective rule declared first
compound_rules_adjective_first == <<
    [kind |-> "prefix", description |-> "adjective compounds",
     alts |-> <<<<"b","o","r","o">>, <<"c","h","o","t","o">>, <<"l","a","l">>, <<"n","i","l">>, <<"h","o","l","u","d">>>>],
    [kind |-> "suffix", description |-> "house/building compounds",
     alts |-> <<<<"b","a","r","i">>, <<"g","h","o","r">>>>],
    [kind |-> "suffix", description |-> "fish compounds",
     alts |-> <<<<"m","a","c","h">>, <<"m","a","s">>>>],
    [kind |-> "suffix", description |-> "quantity compounds",
     alts |-> <<<<"k","h","a","n","a">>, <<"g","u","l","o">>, <<"t","a">>, <<"t","i">>>>] >>

\* a rule (\w+)(a|b|..)$ is kind "suffix", a rule (a|b|..)(\w+)$ kind "prefix"
compound_rules == <<
    [kind |-> "suffix", description |-> "house/building compounds",
     alts |-> <<<<"b","a","r","i">>, <<"g","h","o","r">>>>],
    [kind |-> "suffix", description |-> "fish compounds",
     alts |-> <<<<"m","a","c","h">>, <<"m","a","s">>>>],
    [kind |-> "prefix", description |-> "adjective compounds",
     alts |-> <<<<"b","o","r","o">>, <<"c","h","o","t","o">>, <<"l","a","l">>, <<"n","i","l">>, <<"h","o","l","u","d">>>>],
    [kind |-> "suffix", description |-> "quantity compounds",
     alts |-> <<<<"k","h","a","n","a">>, <<"g","u","l","o">>, <<"t","a">>, <<"t","i">>>>] >>

in_alts(s, alts) == \E k \in 1..Len(alts) : alts[k] = s

\* (\w+)(a|b)$ from the start of the query: \w+ is greedy, so the longest
\* first group whose remainder is one of the alternatives
RECURSIVE suffix_split(_, _, _)
suffix_split(query, alts, n) ==
    IF n < 1 THEN <<>>
    ELSE IF all_word(take(query, n)) /\ in_alts(lower(drop(query, n)), alts)
         THEN <<take(query, n), drop(query, n)>>
         ELSE suffix_split(query, alts, n - 1)

\* (a|b)(\w+)$ from the start of the query: the first alternative, in order,
\* that leaves a non-empty run of word characters
RECURSIVE prefix_split(_, _)
prefix_split(query, alts) ==
    IF alts = <<>> THEN <<>>
    ELSE LET a == Head(alts)
             rest == drop(query, Len(a))
         IN IF starts_with(lower(query), a) /\ rest # <<>> /\ all_word(rest)
            THEN <<take(query, Len(a)), rest>>
            ELSE prefix_split(query, Tail(alts))

\* rule['pattern'].match(query) and rule['split'](match): <<>> when no match
compound_parts(rule, query) ==
    IF rule.kind = "suffix" THEN suffix_split(query, rule.alts, Len(query) - 1)
    ELSE prefix_split(query, rule.alts)

\* a variant of compound_weight that gives a part not found no weight
compound_weight_found_only(found) == IF found THEN 10 ELSE 0

compound_weight(found) == IF found THEN 10 ELSE 3

CompoundFactor == Q(85, 100)

CompoundCap == Q(9, 10)

\* the try block of one matching rule: None stands for the except branch
compound_try(rule, parts, fault) ==
    LET c1 == <<Call("compound", parts[1], FORWARD)>>
        c2 == Append(c1, Call("compound", parts[2], FORWARD))
        looked_up(r1, r2) ==
            IF r1.tag = "raise" THEN ReturnedNone(c1)
            ELSE IF r2.tag = "raise" THEN ReturnedNone(c2)
            ELSE LET t1 == IF r1.tag = "row" THEN r1.val ELSE parts[1]
                     t2 == IF r2.tag = "row" THEN r2.val ELSE parts[2]
                     confidence_sum == compound_weight(r1.tag = "row")
                                       + compound_weight(r2.tag = "row")
                     avg_confidence == Q(confidence_sum, 10 * Len(parts))
                 IN Returned(Result(join(SP, <<t1, t2>>),
                                    q_min(q_mul(avg_confidence, CompoundFactor), CompoundCap),
                                    "compound",
                                    <<<<"split_parts", parts>>,
                                      <<"description", rule.description>>>>),
                             c2)
    IN looked_up(db_lookup(parts[1], FORWARD, fault), db_lookup(parts[2], FORWARD, fault))

\* a variant of compound_loop that gives up at the first rule whose
\* processing raises
RECURSIVE compound_loop_stopping(_, _, _, _)
compound_loop_stopping(rules, query, fault, calls) ==
    LET rule == Head(rules)
        tried(o) ==
            IF o.ret = "result" THEN Returned(o.res, calls \o o.calls)
            ELSE ReturnedNone(calls \o o.calls)
        matched(parts) ==
            IF parts = <<>> THEN compound_loop_stopping(Tail(rules), query, fault, calls)
            ELSE tried(compound_try(rule, parts, fault))
    IN IF rules = <<>> THEN ReturnedNone(calls)
       ELSE matched(compound_parts(rule, query))

RECURSIVE compound_loop(_, _, _, _)
compound_loop(rules, query, fault, calls) ==
    LET rule == Head(rules)
        tried(o) ==
            IF o.ret = "result" THEN Returned(o.res, calls \o o.calls)
            ELSE compound_loop(Tail(rules), query, fault, calls \o o.calls)
        matched(parts) ==
            IF parts = <<>> THEN compound_loop(Tail(rules), query, fault, calls)
            ELSE tried(compound_try(rule, parts, fault))
    IN IF rules = <<>> THEN ReturnedNone(calls)
       ELSE matched(compound_parts(rule, query))

compound_word_split(query, fault) == compound_loop(compound_rules, query, fault, <<>>)

----------------------------------------------------------------------------
(* Step 6: pattern matching *)

\* shape "base_marker":         ^(.+?)\s+(markers)$       (question: \s*\?*$)
\* shape "possession":          ^(first)\s+(.+?)(\s+ache|\s+ase)*$
\* shape "marker_base_marker":  ^(first)\s+(.+?)\s+(markers)$
\* the transform is pre + base + post, but for possession_amar ("I have "
\* when group 3 took part) and negation_na ("not" for a blank base)
pattern_matchers == <<
    [name |-> "question_ki", shape |-> "base_marker", confidence |-> Q(85, 100),
     first |-> <<>>,
     markers |-> <<<<"k","i">>, <<"k">>>>,
     question |-> TRUE, pre |-> <<"w","h","a","t"," ">>, post |-> <<"?">>],
    [name |-> "question_keno", shape |-> "base_marker", confidence |-> Q(85, 100),
     first |-> <<>>,
     markers |-> <<<<"k","e","n","o">>, <<"k","n","o">>>>,
     question |-> TRUE, pre |-> <<"w","h","y"," ">>, post |-> <<"?">>],
    [name |-> "question_kothay", shape |-> "base_marker", confidence |-> Q(85, 100),
     first |-> <<>>,
     markers |-> <<<<"k","o","t","h","a","y">>, <<"k","o","t","h","y">>>>,
     question |-> TRUE, pre |-> <<"w","h","e","r","e"," ">>, post |-> <<"?">>],
    [name |-> "question_kokhon", shape |-> "base_marker", confidence |-> Q(85, 100),
     first |-> <<>>,
     markers |-> <<<<"k","o","k","h","o","n">>, <<"k","k","h","o","n">>>>,
     question |-> TRUE, pre |-> <<"w","h","e","n"," ">>, post |-> <<"?">>],
    [name |-> "possession_amar", shape |-> "possession", confidence |-> Q(80, 100),
     first |-> <<<<"a","m","a","r">>, <<"a","m","r">>>>,
     markers |-> <<<<"a","c","h","e">>, <<"a","s","e">>>>,
     question |-> FALSE, pre |-> <<"m","y"," ">>, post |-> <<>>],
    [name |-> "future_tense_korbo", shape |-> "marker_base_marker", confidence |-> Q(82, 100),
     first |-> <<<<"a","m","i">>, <<"i">>>>,
     markers |-> <<<<"k","o","r","b","o">>, <<"k","r","b","o">>>>,
     question |-> FALSE, pre |-> <<"I"," ","w","i","l","l"," ">>, post |-> <<>>],
    [name |-> "future_tense_korbe", shape |-> "marker_base_marker", confidence |-> Q(82, 100),
     first |-> <<<<"t","u","m","i">>, <<"y","o","u">>>>,
     markers |-> <<<<"k","o","r","b","e">>, <<"k","r","b","e">>>>,
     question |-> FALSE, pre |-> <<"y","o","u"," ","w","i","l","l"," ">>, post |-> <<>>],
    [name |-> "negation_na", shape |-> "base_marker", confidence |-> Q(75, 100),
     first |-> <<>>,
     markers |-> <<<<"n","a">>, <<"n","a","i">>, <<"n","e","i">>>>,
     question |-> FALSE, pre |-> <<>>, post |-> <<" ","n","o","t">>] >>

all_question(s) == \A i \in 1..Len(s) : s[i] = "?"

\* \s+(markers) then the end, or \s*\?* and the end
marker_rest(r, markers, question) ==
    /\ r # <<>>
    /\ is_space(r[1])
    /\ LET r2 == lstrip(r) IN
       \E k \in 1..Len(markers) :
          /\ starts_with(lower(r2), markers[k])
          /\ LET tail == drop(r2, Len(markers[k])) IN
             IF question THEN all_question(lstrip(tail)) ELSE tail = <<>>

\* (.+?) is lazy: the shortest first group the rest of the pattern accepts
RECURSIVE lazy_base(_, _, _, _)
lazy_base(query, markers, question, i) ==
    IF i >= Len(query) THEN <<>>
    ELSE IF marker_rest(drop(query, i), markers, question) THEN take(query, i)
    ELSE lazy_base(query, markers, question, i + 1)

\* ((\s+ache|\s+ase)*$
RECURSIVE ache_tail(_, _)
ache_tail(t, markers) ==
    \/ t = <<>>
    \/ /\ is_space(t[1])
       /\ LET t2 == lstrip(t) IN
          \E k \in 1..Len(markers) :
             /\ starts_with(lower(t2), markers[k])
             /\ ache_tail(drop(t2, Len(markers[k])), markers)

RECURSIVE lazy_len(_, _, _)
lazy_len(body, markers, i) ==
    IF ache_tail(drop(body, i), markers) THEN i ELSE lazy_len(body, markers, i + 1)

\* \s+(.+?)(\s+ache|\s+ase)*$ after the first group: whether it matches and
\* whether group 3 took part
possession_rest(r, markers) ==
    IF r = <<>> \/ ~is_space(r[1]) \/ all_space(r)
      THEN [matched |-> FALSE, g3 |-> FALSE]
      ELSE LET body == lstrip(r)
               i == lazy_len(body, markers, 1)
           IN [matched |-> TRUE, g3 |-> i < Len(body)]

\* \s+(.+?)\s+(markers)$ after the first group
mbm_rest(r, markers) ==
    /\ r # <<>>
    /\ is_space(r[1])
    /\ \E k \in 1..Len(markers) :
          LET m == markers[k]
              mid == SubSeq(r, 2, Len(r) - Len(m))
          IN /\ Len(r) >= Len(m) + 3
             /\ lower(drop(r, Len(r) - Len(m))) = m
             /\ is_space(mid[Len(mid)])

NoMatch == [matched |-> FALSE, g1 |-> <<>>, g3 |-> FALSE]

RECURSIVE first_group(_, _, _)
first_group(m, query, alts) ==
    IF alts = <<>> THEN NoMatch
    ELSE LET a == Head(alts)
             r == drop(query, Len(a))
             rest == IF m.shape = "possession" THEN possession_rest(r, m.markers)
                     ELSE [matched |-> mbm_rest(r, m.markers), g3 |-> FALSE]
         IN IF starts_with(lower(query), a) /\ rest.matched
            THEN [matched |-> TRUE, g1 |-> take(query, Len(a)), g3 |-> rest.g3]
            ELSE first_group(m, query, Tail(alts))

\* matcher['pattern'].match(query): group 1, and whether group 3 is set
pattern_groups(m, query) ==
    LET based(b) ==
            IF b = <<>> THEN NoMatch ELSE [matched |-> TRUE, g1 |-> b, g3 |-> FALSE]
    IN IF m.shape = "base_marker"
         THEN based(lazy_base(query, m.markers, m.question, 1))
         ELSE first_group(m, query, m.first)

I_HAVE == <<"I"," ","h","a","v","e"," ">>

NOT == <<"n","o","t">>

\* matcher['transform'](match, base)
transform(m, match, base) ==
    IF m.name = "possession_amar" /\ match.g3 THEN I_HAVE \o base
    ELSE IF m.name = "negation_na" /\ strip(base) = <<>> THEN NOT
    ELSE m.pre \o base \o m.post

\* _word_by_word_translate: the text, the calls, and whether a lookup raised
RECURSIVE wbw_loop(_, _, _, _, _, _)
wbw_loop(words, fault, stage, translated, found_count, calls) ==
    LET word == Head(words)
        calls2 == Append(calls, Call(stage, word, FORWARD))
        looked_up(result) ==
            IF result.tag = "raise" THEN
                [raised |-> TRUE, translated |-> translated, found |-> found_count,
                 calls |-> calls2]
            ELSE IF result.tag = "row" THEN
                wbw_loop(Tail(words), fault, stage, Append(translated, result.val),
                         found_count + 1, calls2)
            ELSE wbw_loop(Tail(words), fault, stage, Append(translated, word),
                          found_count, calls2)
    IN IF words = <<>> THEN
           [raised |-> FALSE, translated |-> translated, found |-> found_count,
            calls |-> calls]
       ELSE looked_up(db_lookup(word, FORWARD, fault))

word_by_word_translate(query, fault) ==
    LET joined(w) ==
            [raised |-> w.raised, text |-> join(SP, w.translated), calls |-> w.calls]
    IN joined(wbw_loop(split(query), fault, "pattern", <<>>, 0, <<>>))

\* the try block of one matching rule: None stands for the except branch
pattern_try(m, match, fault) ==
    LET base_part == match.g1
        c1 == <<Call("pattern", base_part, FORWARD)>>
        word_by_word(w) ==
            IF w.raised THEN ReturnedNone(c1 \o w.calls)
            ELSE Returned(Result(transform(m, match, w.text), m.confidence, "pattern",
                                 <<<<"pattern", m.name>>, <<"base_part", base_part>>>>),
                          c1 \o w.calls)
        looked_up(base_result) ==
            IF base_result.tag = "raise" THEN ReturnedNone(c1)
            ELSE IF base_result.tag = "row" THEN
                Returned(Result(transform(m, match, base_result.val), m.confidence,
                                "pattern",
                                <<<<"pattern", m.name>>, <<"base_part", base_part>>>>),
                         c1)
            ELSE word_by_word(word_by_word_translate(base_part, fault))
    IN looked_up(db_lookup(base_part, FORWARD, fault))

RECURSIVE pattern_loop(_, _, _, _)
pattern_loop(matchers, query, fault, calls) ==
    LET matcher == Head(matchers)
        tried(o) ==
            IF o.ret = "result" THEN Returned(o.res, calls \o o.calls)
            ELSE pattern_loop(Tail(matchers), query, fault, calls \o o.calls)
        matched(match) ==
            IF ~match.matched THEN pattern_loop(Tail(matchers), query, fault, calls)
            ELSE tried(pattern_try(matcher, match, fault))
    IN IF matchers = <<>> THEN ReturnedNone(calls)
       ELSE matched(pattern_groups(matcher, query))

pattern_match(query, fault) == pattern_loop(pattern_matchers, query, fault, <<>>)

----------------------------------------------------------------------------
(* Step 7: weighted word-by-word *)

WordFactor == Q(7, 10)

WordCap == Q(85, 100)

\* a variant of weighted_word_by_word whose confidence counts every word as
\* translated
weighted_word_by_word_counting_all(query, fault) ==
    LET words == split(query)
        weighted(w) ==
            IF w.raised THEN Raises(w.calls)
            ELSE IF w.found > 0 THEN
                Returned(Result(join(SP, w.translated),
                                q_min(q_mul(Q(Len(words), Len(words)), WordFactor), WordCap),
                                "word_by_word",
                                <<<<"translated_words", w.found>>,
                                  <<"total_words", Len(words)>>>>),
                         w.calls)
            ELSE ReturnedNone(w.calls)
    IN IF words = <<>> THEN ReturnedNone(<<>>)
       ELSE weighted(wbw_loop(words, fault, "word_by_word", <<>>, 0, <<>>))

\* a variant of weighted_word_by_word that returns the words as they are when
\* none of them is translated
weighted_word_by_word_keeping_unfound(query, fault) ==
    LET words == split(query)
        weighted(w) ==
            IF w.raised THEN Raises(w.calls)
            ELSE Returned(Result(join(SP, w.translated),
                                 q_min(q_mul(Q(w.found, Len(words)), WordFactor), WordCap),
                                 "word_by_word",
                                 <<<<"translated_words", w.found>>,
                                   <<"total_words", Len(words)>>>>),
                          w.calls)
    IN IF words = <<>> THEN ReturnedNone(<<>>)
       ELSE weighted(wbw_loop(words, fault, "word_by_word", <<>>, 0, <<>>))

weighted_word_by_word(query, fault) ==
    LET words == split(query)
        weighted(w) ==
            IF w.raised THEN Raises(w.calls)
            ELSE IF w.found > 0 THEN
                Returned(Result(join(SP, w.translated),
                                q_min(q_mul(Q(w.found, Len(words)), WordFactor), WordCap),
                                "word_by_word",
                                <<<<"translated_words", w.found>>,
                                  <<"total_words", Len(words)>>>>),
                         w.calls)
            ELSE ReturnedNone(w.calls)
    IN IF words = <<>> THEN ReturnedNone(<<>>)
       ELSE weighted(wbw_loop(words, fault, "word_by_word", <<>>, 0, <<>>))

----------------------------------------------------------------------------
(* The inputs of the model *)

Q_kemon_acho == <<"k","e","m","o","n"," ","a","c","h","o">>

Q_ami == <<"a","m","i">>

Q_ami_padded == <<" ","a","m","i"," ">>

Q_bhari == <<"b","h","a","r","i">>

Q_dhonobad == <<"d","h","o","n","o","b","a","d">>

Q_chotobari == <<"c","h","o","t","o","b","a","r","i">>

Q_bari_ki == <<"b","a","r","i"," ","k","i">>

Q_ami_boro_mach == <<"a","m","i"," ","b","o","r","o"," ","m","a","c","h">>

Q_zzz_qqq == <<"z","z","z"," ","q","q","q">>

Q_blank == <<" "," ">>

Q_home == <<"h","o","m","e">>

Q_bhig == <<"b","h","i","g">>

Q_Kmn_acho == <<"K","m","n"," ","a","c","h","o">>

Q_amar_bari == <<"a","m","a","r"," ","b","a","r","i">>

Q_ami_bari_korbo == <<"a","m","i"," ","b","a","r","i"," ","k","o","r","b","o">>

Q_ki_khaba == <<"k","i"," ","k","h","a","b","a">>

Q_Dhonobad == <<"D","h","o","n","o","b","a","d">>

Q_zzz_bari_qqq == <<"z","z","z"," ","b","a","r","i"," ","q","q","q">>

Q_chotorbari == <<"c","h","o","t","o","r","b","a","r","i">>

Q_lalmas == <<"l","a","l","m","a","s">>

Q_amar_bari_ki == <<"a","m","a","r"," ","b","a","r","i"," ","k","i">>

T_bari == <<"b","a","r","i">>

T_dhonnobad == <<"d","h","o","n","n","o","b","a","d">>

T_me == <<"m","e">>

T_myself == <<"m","y","s","e","l","f">>

\* the queries translate is called with: one per stage of the pipeline, a
\* padded one, a blank one, a miss, the reverse-direction ones, and one per
\* shape of pattern rule
Queries ==
    { Q_kemon_acho, Q_ami, Q_ami_padded, Q_bhari, Q_dhonobad, Q_chotobari, Q_bari_ki,
      Q_ami_boro_mach, Q_zzz_qqq, Q_blank, Q_home, Q_bhig, Q_Kmn_acho,
      Q_amar_bari, Q_ami_bari_korbo, Q_ki_khaba, Q_Dhonobad,
      Q_zzz_bari_qqq, Q_chotorbari, Q_amar_bari_ki,
      Q_lalmas }

Directions == {FORWARD, REVERSE}

\* a direction value that is neither of the two: direction is a plain str
UNSUPPORTED == <<"x">>

AnyDirections == Directions \cup {UNSUPPORTED}

\* the queries feedback is given on, and the suggested translations
FeedbackQueries == {Q_ami, Q_ami_padded}

Suggestions == {T_me, T_myself}

\* the sets of texts on which the collaborator raises
Faults == { {}, {Q_ami_boro_mach, T_dhonnobad}, {Q_ami, T_bari} }

\* how a write of the feedback file ends
IOs == {"ok", "open_error", "write_error"}

\* the number of add_feedback calls of a run
MaxFeedback == 3

\* a query with a colon in it, and the query with a capital
Q_ami_x == <<"a","m","i",":","x">>

Q_Ami == <<"A","m","i">>

\* a direction value with a colon in it: direction is a plain str
D_x_forward == <<"x", ":">> \o FORWARD

\* the queries and direction values the cache keys are compared on
KeyQueries == {Q_ami, Q_ami_padded, Q_ami_x, Q_Ami}

KeyDirections == {FORWARD, REVERSE, D_x_forward}

\* the arguments translate reaches step 2 with
PipelineArgs ==
    { <<strip(q), d, f>> : q \in Queries \cup FeedbackQueries, d \in AnyDirections,
                           f \in Faults }
    \cup { <<strip(q), d, {}>> : q \in KeyQueries, d \in KeyDirections }

----------------------------------------------------------------------------

----------------------------------------------------------------------------
(* translate: the whole call.  An outcome also lists the stages run, the    *)
(* calls made on the collaborator and the log events emitted.               *)

Outcome(ret, res, stages, calls, events) ==
    [ret |-> ret, res |-> res, stages |-> stages, calls |-> calls, events |-> events]

\* f"{query}:{direction}"
CacheKey(query, direction) == query \o <<":">> \o direction

ExactConfidence == Q(1, 1)

PhoneticConfidence == Q(95, 100)

\* a variant of advanced_order with the pattern step before the compound step
advanced_order_pattern_first == <<"fuzzy", "pattern", "compound", "word_by_word">>

\* the four forward-only steps in the order translate runs them
advanced_order == <<"fuzzy", "compound", "pattern", "word_by_word">>

run_stage(stage, normalized_query, fault) ==
    IF stage = "fuzzy" THEN fuzzy_match(normalized_query, FuzzyThreshold, fault)
    ELSE IF stage = "compound" THEN compound_word_split(normalized_query, fault)
    ELSE IF stage = "pattern" THEN pattern_match(normalized_query, fault)
    ELSE weighted_word_by_word(normalized_query, fault)

\* steps 4..7: each returns at once on a result; an exception of a step
\* leaves translate (log_execution_time re-raises); after the last step the
\* miss is logged
RECURSIVE advanced(_, _, _, _, _, _)
advanced(order, normalized_query, fault, stages, calls, events) ==
    LET stages2 == Append(stages, Head(order))
        ended(o) ==
            IF o.ret = "raise" THEN
                Outcome("raise", NoResult, stages2, calls \o o.calls, events)
            ELSE IF o.ret = "result" THEN
                Outcome("result", o.res, stages2, calls \o o.calls,
                        Append(events, "translation_result"))
            ELSE advanced(Tail(order), normalized_query, fault, stages2,
                          calls \o o.calls, events)
    IN IF order = <<>> THEN
           Outcome("none", NoResult, stages, calls,
                   events \o <<"translation_result", "translation_miss">>)
       ELSE ended(run_stage(Head(order), normalized_query, fault))

\* a variant of advanced_allowed that lets every direction go on
advanced_allowed_always(direction) == TRUE

\* "Only proceed with advanced methods for banglish_to_english"
advanced_allowed(direction) == direction = FORWARD

\* a variant of lookups that makes the phonetic lookup whether or not the
\* phonetic form differs
lookups_always_phonetic(normalized_query, phonetic_query, exact_result, phonetic_result, direction, fault) ==
    LET c_exact == <<Call("exact", normalized_query, direction)>>
        s_exact == <<"adaptive_cache", "exact">>
        tried == TRUE
        c_phon == IF tried THEN Append(c_exact, Call("phonetic", phonetic_query, direction))
                  ELSE c_exact
        s_phon == IF tried THEN Append(s_exact, "phonetic") ELSE s_exact
        ev == <<"translation_request">>
    IN IF exact_result.tag = "raise" THEN Outcome("raise", NoResult, s_exact, c_exact, ev)
       ELSE IF exact_result.tag = "row" THEN
           IF direction = FORWARD THEN
               IF has_col(exact_result, "english") THEN
                   Outcome("result", Result(exact_result.val, ExactConfidence, "exact", <<>>),
                           s_exact, c_exact, Append(ev, "translation_result"))
               ELSE Outcome("raise", NoResult, s_exact, c_exact, ev)
           ELSE Outcome("result", Result(exact_result.val, ExactConfidence, "exact", <<>>),
                        s_exact, c_exact, Append(ev, "translation_result"))
       ELSE IF tried /\ phonetic_result.tag = "raise" THEN
           Outcome("raise", NoResult, s_phon, c_phon, ev)
       ELSE IF tried /\ phonetic_result.tag = "row" THEN
           IF has_col(phonetic_result, "english") THEN
               Outcome("result",
                       Result(phonetic_result.val, PhoneticConfidence, "phonetic",
                              <<<<"phonetic_form", phonetic_query>>>>),
                       s_phon, c_phon, Append(ev, "translation_result"))
           ELSE Outcome("raise", NoResult, s_phon, c_phon, ev)
       ELSE IF ~advanced_allowed(direction) THEN
           Outcome("none", NoResult, s_phon, c_phon, Append(ev, "translation_result"))
       ELSE advanced(advanced_order, normalized_query, fault, s_phon, c_phon, ev)

\* steps 3 to 7 on the normalized query and its phonetic form
lookups(normalized_query, phonetic_query, exact_result, phonetic_result, direction, fault) ==
    LET c_exact == <<Call("exact", normalized_query, direction)>>
        s_exact == <<"adaptive_cache", "exact">>
        tried == phonetic_query # normalized_query
        c_phon == IF tried THEN Append(c_exact, Call("phonetic", phonetic_query, direction))
                  ELSE c_exact
        s_phon == IF tried THEN Append(s_exact, "phonetic") ELSE s_exact
        ev == <<"translation_request">>
    IN IF exact_result.tag = "raise" THEN Outcome("raise", NoResult, s_exact, c_exact, ev)
       ELSE IF exact_result.tag = "row" THEN
           IF direction = FORWARD THEN
               IF has_col(exact_result, "english") THEN
                   Outcome("result", Result(exact_result.val, ExactConfidence, "exact", <<>>),
                           s_exact, c_exact, Append(ev, "translation_result"))
               ELSE Outcome("raise", NoResult, s_exact, c_exact, ev)
           ELSE Outcome("result", Result(exact_result.val, ExactConfidence, "exact", <<>>),
                        s_exact, c_exact, Append(ev, "translation_result"))
       ELSE IF tried /\ phonetic_result.tag = "raise" THEN
           Outcome("raise", NoResult, s_phon, c_phon, ev)
       ELSE IF tried /\ phonetic_result.tag = "row" THEN
           IF has_col(phonetic_result, "english") THEN
               Outcome("result",
                       Result(phonetic_result.val, PhoneticConfidence, "phonetic",
                              <<<<"phonetic_form", phonetic_query>>>>),
                       s_phon, c_phon, Append(ev, "translation_result"))
           ELSE Outcome("raise", NoResult, s_phon, c_phon, ev)
       ELSE IF ~advanced_allowed(direction) THEN
           Outcome("none", NoResult, s_phon, c_phon, Append(ev, "translation_result"))
       ELSE advanced(advanced_order, normalized_query, fault, s_phon, c_phon, ev)

\* translate from step 2 on, for a stripped query that missed the cache
pipeline(query, direction, fault) ==
    LET normalized(normalized_query, phonetic_query) ==
            lookups(normalized_query, phonetic_query,
                    db_lookup(normalized_query, direction, fault),
                    db_lookup(phonetic_query, direction, fault),
                    direction, fault)
    IN normalized(normalize_slang(query), phonetic_normalize(normalize_slang(query)))

\* the outcomes of pipeline on the arguments of the model, computed once
pipeline_table == [a \in PipelineArgs |-> pipeline(a[1], a[2], a[3])]

\* how a call leaves the engine: its outcome and self.adaptive_cache
Ended(out, cache) == [out |-> out, cache |-> cache]

\* a variant of cached_result that keeps the method stored in the entry
cached_result_stored_method(cached) ==
    Result(cached.translation, cached.confidence, cached.method,
           <<<<"feedback_count", cached.feedback_count>>>>)

\* step 1 on a hit: a copy of the entry with its method set to adaptive_cache
cached_result(cached) ==
    Result(cached.translation, cached.confidence, "adaptive_cache",
           <<<<"feedback_count", cached.feedback_count>>>>)

\* a variant of translate that sets the method on the entry itself, not on a
\* copy of it
translate_without_copy(query, direction, cache, fault) ==
    LET q == strip(query)
        cache_key == CacheKey(q, direction)
    IN IF q = <<>> THEN
           Ended(Outcome("none", NoResult, <<>>, <<>>, <<"translation_request_invalid">>),
                 cache)
       ELSE IF cache_key \in DOMAIN cache THEN
           Ended(Outcome("result", cached_result(cache[cache_key]),
                         <<"adaptive_cache">>, <<>>,
                         <<"translation_request", "translation_result">>),
                 [cache EXCEPT ![cache_key].method = "adaptive_cache"])
       ELSE Ended(pipeline_table[<<q, direction, fault>>], cache)

\* a variant of translate that counts a hit of the cache in the entry it returns
translate_counting_hits(query, direction, cache, fault) ==
    LET q == strip(query)
        cache_key == CacheKey(q, direction)
    IN IF q = <<>> THEN
           Ended(Outcome("none", NoResult, <<>>, <<>>, <<"translation_request_invalid">>),
                 cache)
       ELSE IF cache_key \in DOMAIN cache THEN
           Ended(Outcome("result", cached_result(cache[cache_key]),
                         <<"adaptive_cache">>, <<>>,
                         <<"translation_request", "translation_result">>),
                 [cache EXCEPT ![cache_key].feedback_count = @ + 1])
       ELSE Ended(pipeline_table[<<q, direction, fault>>], cache)

translate(query, direction, cache, fault) ==
    IF strip(query) = <<>> THEN
        Ended(Outcome("none", NoResult, <<>>, <<>>, <<"translation_request_invalid">>),
              cache)
    ELSE LET q == strip(query)
             cache_key == CacheKey(q, direction)
         IN IF cache_key \in DOMAIN cache THEN
                Ended(Outcome("result", cached_result(cache[cache_key]),
                              <<"adaptive_cache">>, <<>>,
                              <<"translation_request", "translation_result">>),
                      cache)
            ELSE Ended(pipeline_table[<<q, direction, fault>>], cache)

----------------------------------------------------------------------------
(* The adaptive cache and the feedback file *)

UserFeedbackConfidence == Q(9, 10)

Entry(t, n) ==
    [translation |-> t, confidence |-> UserFeedbackConfidence,
     method |-> "user_feedback", feedback_count |-> n]

\* self.adaptive_cache[key] = e
Put(cache, key, e) ==
    [k \in DOMAIN cache \cup {key} |-> IF k = key THEN e ELSE cache[k]]

\* self.adaptive_cache.pop(key, None)
Pop(cache, key) == [k \in DOMAIN cache \ {key} |-> cache[k]]

EmptyCache == [k \in {} |-> Entry(<<>>, 0)]

\* a variant of feedback_count_of that never finds an earlier count
feedback_count_of_fresh(cache, cache_key) == 0

\* self.adaptive_cache.get(cache_key, {}).get('feedback_count', 0)
feedback_count_of(cache, cache_key) ==
    IF cache_key \in DOMAIN cache THEN cache[cache_key].feedback_count ELSE 0

\* a variant of json_escape that escapes nothing
json_escape_nothing(c) == <<c>>

\* what the encoder writes for one character of a str (ensure_ascii=False)
json_escape(c) ==
    IF c = "\"" THEN <<"\\", "\"">>
    ELSE IF c = "\\" THEN <<"\\", "\\">>
    ELSE IF c = "\n" THEN <<"\\", "n">>
    ELSE IF c = "\t" THEN <<"\\", "t">>
    ELSE <<c>>

RECURSIVE json_escaped(_)
json_escaped(str) ==
    IF str = <<>> THEN <<>> ELSE json_escape(Head(str)) \o json_escaped(Tail(str))

digits(n) == IF n < 10 THEN 1 ELSE IF n < 100 THEN 2 ELSE 3

\* the number of characters json.dump(.., ensure_ascii=False, indent=2)
\* writes for the map: "{}" when empty, else one block per entry
RECURSIVE json_entries_length(_, _)
json_entries_length(cache, keys) ==
    IF keys = {} THEN 0
    ELSE LET k == CHOOSE x \in keys : TRUE IN
         113 + Len(json_escaped(k)) + Len(json_escaped(cache[k].translation))
             + digits(cache[k].feedback_count)
             + json_entries_length(cache, keys \ {k})

json_length(cache) == 2 + json_entries_length(cache, DOMAIN cache)

\* the file: absent, a complete JSON text of a map (json), an empty text
\* (truncated), or a text that is no JSON document (corrupt)
File(state, content, size) == [state |-> state, content |-> content, size |-> size]

\* open(FEEDBACK_DATA_PATH, 'w')
truncate == File("truncated", EmptyCache, 0)

\* the buffered text of a dump reaches the file from its start when the file
\* is closed: it replaces the text there, and what lies beyond its end stays
write_at_start(file, buffer) ==
    IF json_length(buffer) >= file.size
      THEN File("json", buffer, json_length(buffer))
      ELSE File("corrupt", EmptyCache, file.size)

\* a variant of save_adaptive_cache that writes nothing for an empty cache
save_adaptive_cache_skip_empty(cache, file, io) ==
    IF io = "ok" /\ cache # EmptyCache
      THEN [raised |-> FALSE, file |-> write_at_start(truncate, cache)]
    ELSE IF io = "ok" \/ io = "open_error" THEN [raised |-> FALSE, file |-> file]
    ELSE [raised |-> FALSE, file |-> truncate]

\* _save_adaptive_cache: an error of open leaves the file as it was, an error
\* while writing leaves the truncated file; both are caught and logged
save_adaptive_cache(cache, file, io) ==
    IF io = "ok" THEN [raised |-> FALSE, file |-> write_at_start(truncate, cache)]
    ELSE IF io = "open_error" THEN [raised |-> FALSE, file |-> file]
    ELSE [raised |-> FALSE, file |-> truncate]

\* the in-memory effect of add_feedback
feedback_cache(cache, query, direction, suggested_translation, is_correct) ==
    LET cache_key == CacheKey(query, direction) IN
    IF is_correct THEN
        Put(cache, cache_key,
            Entry(suggested_translation, feedback_count_of(cache, cache_key) + 1))
    ELSE Pop(cache, cache_key)

\* add_feedback: the mutation, then the save; it returns None
add_feedback(cache, file, query, direction, suggested_translation, is_correct, io) ==
    LET cache2 == feedback_cache(cache, query, direction, suggested_translation, is_correct)
        saved == save_adaptive_cache(cache2, file, io)
    IN [ret |-> IF saved.raised THEN "raise" ELSE "none",
        cache |-> cache2, file |-> saved.file]

----------------------------------------------------------------------------
(* The text of the feedback file: json.dump and json.load *)

J_translation == <<"t","r","a","n","s","l","a","t","i","o","n">>

J_confidence == <<"c","o","n","f","i","d","e","n","c","e">>

J_method == <<"m","e","t","h","o","d">>

J_feedback_count == <<"f","e","e","d","b","a","c","k","_","c","o","u","n","t">>

\* the method names as text
MethodNames ==
    << <<"user_feedback", <<"u","s","e","r","_","f","e","e","d","b","a","c","k">>>>,
       <<"adaptive_cache", <<"a","d","a","p","t","i","v","e","_","c","a","c","h","e">>>> >>

method_text(method) ==
    MethodNames[CHOOSE i \in DOMAIN MethodNames : MethodNames[i][1] = method][2]

text_method(text) ==
    IF \E i \in DOMAIN MethodNames : MethodNames[i][2] = text
    THEN MethodNames[CHOOSE i \in DOMAIN MethodNames : MethodNames[i][2] = text][1]
    ELSE "none"

Digits == <<"0", "1", "2", "3", "4", "5", "6", "7", "8", "9">>

json_string(str) == <<"\"">> \o json_escaped(str) \o <<"\"">>

\* int.__repr__
RECURSIVE int_text(_)
int_text(n) ==
    IF n < 10 THEN <<Digits[n + 1]>>
    ELSE int_text(n \div 10) \o <<Digits[(n % 10) + 1]>>

\* the digits after the point of r / den, for a fraction that ends
RECURSIVE fraction_text(_, _)
fraction_text(r, den) ==
    IF r = 0 THEN <<>>
    ELSE <<Digits[((r * 10) \div den) + 1]>> \o fraction_text((r * 10) % den, den)

\* float.__repr__ of a confidence: 0.9 is written "0.9", 1.0 "1.0"
float_text(q) ==
    int_text(q.num \div q.den) \o <<".">>
        \o (IF q.num % q.den = 0 THEN <<"0">> ELSE fraction_text(q.num % q.den, q.den))

\* one entry as json.dump(.., indent=2) writes it, from its key to its "}"
json_entry(key, entry) ==
    <<" ", " ">> \o json_string(key) \o <<":", " ", "{", "\n">>
    \o <<" ", " ", " ", " ">> \o json_string(J_translation) \o <<":", " ">>
        \o json_string(entry.translation) \o <<",", "\n">>
    \o <<" ", " ", " ", " ">> \o json_string(J_confidence) \o <<":", " ">>
        \o float_text(entry.confidence) \o <<",", "\n">>
    \o <<" ", " ", " ", " ">> \o json_string(J_method) \o <<":", " ">>
        \o json_string(method_text(entry.method)) \o <<",", "\n">>
    \o <<" ", " ", " ", " ">> \o json_string(J_feedback_count) \o <<":", " ">>
        \o int_text(entry.feedback_count) \o <<"\n">>
    \o <<" ", " ", "}">>

RECURSIVE json_entries(_, _)
json_entries(cache, keys) ==
    IF keys = {} THEN <<>>
    ELSE LET k == CHOOSE x \in keys : TRUE IN
         json_entry(k, cache[k])
             \o (IF keys = {k} THEN <<>> ELSE <<",", "\n">>)
             \o json_entries(cache, keys \ {k})

\* json.dump(self.adaptive_cache, f, ensure_ascii=False, indent=2)
json_dump(cache) ==
    IF DOMAIN cache = {} THEN <<"{", "}">>
    ELSE <<"{", "\n">> \o json_entries(cache, DOMAIN cache) \o <<"\n", "}">>

\* what the decoder has read: a str, an int, a float or an object, the
\* members of an object in the order of the text
JStr(str) == [kind |-> "str", str |-> str, n |-> 0, q |-> Q(0, 1), members |-> <<>>]

JInt(n) == [kind |-> "int", str |-> <<>>, n |-> n, q |-> Q(0, 1), members |-> <<>>]

JFloat(q) == [kind |-> "float", str |-> <<>>, n |-> 0, q |-> q, members |-> <<>>]

JObject(members) ==
    [kind |-> "object", str |-> <<>>, n |-> 0, q |-> Q(0, 1), members |-> members]

\* the decoder's progress: a value and the position after it, or JSONDecodeError
Parsed(val, pos) == [ok |-> TRUE, val |-> val, pos |-> pos]

Failed == [ok |-> FALSE, val |-> JStr(<<>>), pos |-> 0]

char_at(text, i) == IF i \in 1..Len(text) THEN text[i] ELSE ""

RECURSIVE skip_space(_, _)
skip_space(text, i) ==
    IF char_at(text, i) \in {" ", "\n", "\t", "\r"} THEN skip_space(text, i + 1) ELSE i

\* a str from after its opening quote; a control character in it is an error
RECURSIVE scan_string(_, _, _)
scan_string(text, i, acc) ==
    IF i > Len(text) THEN Failed
    ELSE IF text[i] = "\"" THEN Parsed(JStr(acc), i + 1)
    ELSE IF text[i] \in {"\n", "\t", "\r"} THEN Failed
    ELSE IF text[i] = "\\" THEN
        IF char_at(text, i + 1) \in {"\"", "\\", "/"}
            THEN scan_string(text, i + 2, Append(acc, text[i + 1]))
        ELSE IF char_at(text, i + 1) = "n" THEN scan_string(text, i + 2, Append(acc, "\n"))
        ELSE IF char_at(text, i + 1) = "t" THEN scan_string(text, i + 2, Append(acc, "\t"))
        ELSE Failed
    ELSE scan_string(text, i + 1, Append(acc, text[i]))

digit_value(c) == (CHOOSE d \in DOMAIN Digits : Digits[d] = c) - 1

is_digit(c) == \E d \in DOMAIN Digits : Digits[d] = c

\* the digits from i on: their value and how many they are
RECURSIVE scan_digits(_, _, _, _)
scan_digits(text, i, value, count) ==
    IF is_digit(char_at(text, i))
    THEN scan_digits(text, i + 1, value * 10 + digit_value(text[i]), count + 1)
    ELSE [value |-> value, count |-> count, pos |-> i]

RECURSIVE power_of_ten(_)
power_of_ten(k) == IF k = 0 THEN 1 ELSE 10 * power_of_ten(k - 1)

\* a number: digits make an int, digits "." digits a float
scan_number(text, i) ==
    LET whole == scan_digits(text, i, 0, 0)
        fraction == scan_digits(text, whole.pos + 1, 0, 0)
    IN IF whole.count = 0 THEN Failed
       ELSE IF char_at(text, whole.pos) # "." THEN Parsed(JInt(whole.value), whole.pos)
       ELSE IF fraction.count = 0 THEN Failed
       ELSE Parsed(JFloat(Q(whole.value * power_of_ten(fraction.count) + fraction.value,
                            power_of_ten(fraction.count))),
                   fraction.pos)

\* the members of an object from after its "{" to its "}"; at depth 2 the
\* values are objects, at depth 1 they are strs and numbers
RECURSIVE scan_members(_, _, _, _)
scan_value(text, i, depth) ==
    IF char_at(text, i) = "\"" THEN scan_string(text, i + 1, <<>>)
    ELSE IF char_at(text, i) = "{" /\ depth > 1
        THEN scan_members(text, skip_space(text, i + 1), <<>>, depth - 1)
    ELSE scan_number(text, i)

scan_members(text, i, acc, depth) ==
    IF char_at(text, i) = "}" /\ acc = <<>> THEN Parsed(JObject(acc), i + 1)
    ELSE IF char_at(text, i) # "\"" THEN Failed
    ELSE LET after_name(name) ==
                 IF ~name.ok \/ char_at(text, skip_space(text, name.pos)) # ":" THEN Failed
                 ELSE LET after_value(value) ==
                              IF ~value.ok THEN Failed
                              ELSE LET next == skip_space(text, value.pos)
                                       members == Append(acc, <<name.val.str, value.val>>)
                                   IN IF char_at(text, next) = "}"
                                          THEN Parsed(JObject(members), next + 1)
                                      ELSE IF char_at(text, next) = ","
                                          THEN scan_members(text, skip_space(text, next + 1),
                                                            members, depth)
                                      ELSE Failed
                      IN after_value(scan_value(text,
                                                skip_space(text, skip_space(text, name.pos) + 1),
                                                depth))
         IN after_name(scan_string(text, i + 1, <<>>))

\* obj[name] for a name the object has: the value of its last member of that name
member(members, name) ==
    members[CHOOSE i \in DOMAIN members :
                /\ members[i][1] = name
                /\ \A j \in DOMAIN members : members[j][1] = name => j <= i][2]

has_member(members, name) == \E i \in DOMAIN members : members[i][1] = name

\* the entry a decoded object is, field by field
entry_of(members) ==
    LET field(name) == IF has_member(members, name) THEN member(members, name)
                       ELSE JStr(<<>>)
    IN [translation |-> field(J_translation).str,
        confidence |-> field(J_confidence).q,
        method |-> text_method(field(J_method).str),
        feedback_count |-> field(J_feedback_count).n]

\* json.load(f): the map the text is, or JSONDecodeError
json_load(text) ==
    LET start == skip_space(text, 1)
        decoded(r) ==
            IF ~r.ok \/ skip_space(text, r.pos) # Len(text) + 1
                THEN [ok |-> FALSE, cache |-> EmptyCache]
            ELSE [ok |-> TRUE,
                  cache |-> [k \in {r.val.members[i][1] : i \in DOMAIN r.val.members} |->
                                entry_of(member(r.val.members, k).members)]]
    IN IF char_at(text, start) # "{" THEN [ok |-> FALSE, cache |-> EmptyCache]
       ELSE decoded(scan_members(text, skip_space(text, start + 1), <<>>, 2))

\* the text in the file: a dump of a map, nothing, or a dump cut into another
file_text(file) ==
    IF file.state = "json" THEN json_dump(file.content)
    ELSE IF file.state = "corrupt" THEN <<"{", "}", "}">>
    ELSE <<>>

\* _load_adaptive_cache: {} without a file and when the text is no JSON
\* document, else the map json.load returns
load_adaptive_cache(file) ==
    IF file.state = "absent" THEN EmptyCache
    ELSE LET loaded(r) == IF r.ok THEN r.cache ELSE EmptyCache
         IN loaded(json_load(file_text(file)))

----------------------------------------------------------------------------
(* The engine as a state machine *)

Threads == {"t1", "t2"}

VARIABLES
    adaptive_cache,   \* self.adaptive_cache
    feedback_file,    \* feedback_data.json
    feedback_calls,   \* add_feedback calls so far
    last,             \* the call the caller has made and how it ended
    threads,          \* the add_feedback calls running concurrently
    reader            \* the translate call running concurrently with them

vars == <<adaptive_cache, feedback_file, feedback_calls, last, threads, reader>>

NoCall ==
    [op |-> "none", query |-> <<>>, direction |-> <<>>, translation |-> <<>>,
     is_correct |-> FALSE, io |-> "", fault |-> {}, had_entry |-> FALSE,
     after_feedback |-> FALSE, second |-> FALSE, out |-> Outcome("none", NoResult, <<>>, <<>>, <<>>)]

Idle ==
    [pc |-> "idle", query |-> <<>>, direction |-> <<>>, translation |-> <<>>,
     is_correct |-> FALSE, count |-> 0, buffer |-> EmptyCache]

\* no translate call is running: pc is where the call stands, before is
\* self.adaptive_cache as the call found it
NoReader ==
    [pc |-> "idle", query |-> <<>>, direction |-> <<>>, before |-> EmptyCache,
     out |-> Outcome("none", NoResult, <<>>, <<>>, <<>>)]

\* after __init__ with no feedback file: _load_adaptive_cache returns {}
Init ==
    /\ adaptive_cache = EmptyCache
    /\ feedback_file = File("absent", EmptyCache, 0)
    /\ feedback_calls = 0
    /\ last = NoCall
    /\ threads = [t \in Threads |-> Idle]
    /\ reader = NoReader

\* translate(query, direction), the collaborator raising on the texts of fault
Translate(query, direction, fault) ==
    /\ last.op = "none"
    /\ \E r \in {translate(query, direction, adaptive_cache, fault)} :
       /\ adaptive_cache' = r.cache
       /\ last' = [NoCall EXCEPT !.op = "translate", !.query = query,
                                 !.direction = direction, !.fault = fault,
                                 !.out = r.out]
    /\ UNCHANGED <<feedback_file, feedback_calls, threads, reader>>

\* translate(query, direction) on the query and direction of the add_feedback
\* call that has just ended
TranslateAfterFeedback(fault) ==
    /\ last.op = "add_feedback"
    /\ \E r \in {translate(last.query, last.direction, adaptive_cache, fault)} :
       /\ adaptive_cache' = r.cache
       /\ last' = [last EXCEPT !.op = "translate", !.fault = fault,
                               !.after_feedback = TRUE, !.out = r.out]
    /\ UNCHANGED <<feedback_file, feedback_calls, threads, reader>>

\* the same translate call once more
TranslateAgain ==
    /\ last.op = "translate"
    /\ ~last.second
    /\ \E r \in {translate(last.query, last.direction, adaptive_cache, last.fault)} :
       /\ adaptive_cache' = r.cache
       /\ last' = [last EXCEPT !.second = TRUE, !.out = r.out]
    /\ UNCHANGED <<feedback_file, feedback_calls, threads, reader>>

AddFeedback(query, direction, suggested_translation, is_correct, io) ==
    /\ last.op = "none"
    /\ feedback_calls < MaxFeedback
    /\ \E r \in {add_feedback(adaptive_cache, feedback_file, query, direction,
                              suggested_translation, is_correct, io)} :
          /\ adaptive_cache' = r.cache
          /\ feedback_file' = r.file
          /\ last' = [NoCall EXCEPT !.op = "add_feedback", !.query = query,
                                    !.direction = direction,
                                    !.translation = suggested_translation,
                                    !.is_correct = is_correct, !.io = io,
                                    !.had_entry =
                                        CacheKey(query, direction) \in DOMAIN adaptive_cache,
                                    !.out = Outcome(r.ret, NoResult, <<>>, <<>>,
                                                    <<"user_feedback">>)]
    /\ feedback_calls' = feedback_calls + 1
    /\ UNCHANGED <<threads, reader>>

\* the caller has the outcome and is free to make the next call
Return ==
    /\ last.op # "none"
    /\ last' = NoCall
    /\ UNCHANGED <<adaptive_cache, feedback_file, feedback_calls, threads, reader>>

Next ==
    \/ \E q \in Queries, d \in Directions, f \in Faults : Translate(q, d, f)
    \/ \E f \in Faults : TranslateAfterFeedback(f)
    \/ TranslateAgain
    \/ \E q \in FeedbackQueries, d \in Directions, t \in Suggestions,
          c \in BOOLEAN, io \in IOs : AddFeedback(q, d, t, c, io)
    \/ Return

Spec == Init /\ [][Next]_vars

\* the same calls, feedback being given with any direction value and
\* translate being called with the unsupported one
NextAnyDirection ==
    \/ \E q \in Queries, f \in Faults : Translate(q, UNSUPPORTED, f)
    \/ \E f \in Faults : TranslateAfterFeedback(f)
    \/ TranslateAgain
    \/ \E q \in FeedbackQueries, d \in AnyDirections, t \in Suggestions,
          c \in BOOLEAN, io \in IOs : AddFeedback(q, d, t, c, io)
    \/ Return

SpecAnyDirection == Init /\ [][NextAnyDirection]_vars

\* translate and add_feedback on queries and direction values whose cache
\* keys are compared, the collaborator raising nothing
NextKeys ==
    \/ \E q \in KeyQueries, d \in KeyDirections : Translate(q, d, {})
    \/ \E q \in KeyQueries, d \in KeyDirections, t \in Suggestions,
          c \in BOOLEAN : AddFeedback(q, d, t, c, "ok")
    \/ Return

SpecKeys == Init /\ [][NextKeys]_vars

\* a new process: EnhancedTranslationEngine() builds the engine again and
\* __init__ loads self.adaptive_cache from the feedback file
Restart ==
    /\ last.op \in {"none", "add_feedback"}
    /\ \E cache \in {load_adaptive_cache(feedback_file)} : adaptive_cache' = cache
    /\ last' = [last EXCEPT !.op = "restart"]
    /\ UNCHANGED <<feedback_file, feedback_calls, threads, reader>>

\* a suggested translation with quotation marks in it
T_quoted == <<"\"", "m", "e", "\"">>

RestartSuggestions == {T_me, T_quoted}

\* feedback, translate calls and restarts of the process
NextRestart ==
    \/ \E q \in FeedbackQueries, d \in Directions, t \in RestartSuggestions,
          c \in BOOLEAN, io \in IOs : AddFeedback(q, d, t, c, io)
    \/ \E q \in FeedbackQueries, d \in Directions : Translate(q, d, {})
    \/ Restart
    \/ Return

SpecRestart == Init /\ [][NextRestart]_vars

----------------------------------------------------------------------------
(* The normalizers called on their own                                       *)

\* the longest text given to a normalizer
MaxTextLen == 4

PhoneticAlphabet == {"c", "k", "h", "o", "C"}

PhoneticTexts == UNION {[1..n -> PhoneticAlphabet] : n \in 0..MaxTextLen}

\* a helper that returns a text has returned it
ReturnedText(text) == Outcome("result", Result(text, Q(0, 1), "none", <<>>), <<>>, <<>>, <<>>)

\* _phonetic_normalize(text)
PhoneticNormalize(text) ==
    /\ last.op = "none"
    /\ last' = [NoCall EXCEPT !.op = "phonetic_normalize", !.query = text,
                              !.out = ReturnedText(phonetic_normalize(text))]
    /\ UNCHANGED <<adaptive_cache, feedback_file, feedback_calls, threads, reader>>

SlangAlphabet == {"u", "r", "K", "!", " "}

SlangTexts == UNION {[1..n -> SlangAlphabet] : n \in 0..MaxTextLen}

\* _normalize_slang(text)
NormalizeSlang(text) ==
    /\ last.op = "none"
    /\ last' = [NoCall EXCEPT !.op = "normalize_slang", !.query = text,
                              !.out = ReturnedText(normalize_slang(text))]
    /\ UNCHANGED <<adaptive_cache, feedback_file, feedback_calls, threads, reader>>

\* _normalize_slang on what _normalize_slang has returned
NormalizeSlangAgain ==
    /\ last.op = "normalize_slang"
    /\ ~last.second
    /\ last' = [last EXCEPT !.second = TRUE,
                            !.out = ReturnedText(normalize_slang(last.out.res.translation))]
    /\ UNCHANGED <<adaptive_cache, feedback_file, feedback_calls, threads, reader>>

NextSlang ==
    \/ \E text \in SlangTexts : NormalizeSlang(text)
    \/ NormalizeSlangAgain
    \/ Return

SpecSlang == Init /\ [][NextSlang]_vars

NextPhonetic ==
    \/ \E text \in PhoneticTexts : PhoneticNormalize(text)
    \/ Return

SpecPhonetic == Init /\ [][NextPhonetic]_vars

----------------------------------------------------------------------------
(* add_feedback run by two threads of one engine: the statements of          *)
(* add_feedback and _save_adaptive_cache, one step each                      *)

\* the call begins: cache_key is formed and is_correct is tested
Begin(t, query, direction, suggested_translation, is_correct) ==
    /\ threads[t].pc = "idle"
    /\ threads' = [threads EXCEPT ![t] =
                      [Idle EXCEPT !.pc = IF is_correct THEN "read" ELSE "pop",
                                   !.query = query, !.direction = direction,
                                   !.translation = suggested_translation,
                                   !.is_correct = is_correct]]
    /\ UNCHANGED <<adaptive_cache, feedback_file, feedback_calls, last, reader>>

\* the right-hand side: self.adaptive_cache.get(cache_key, {}).get('feedback_count', 0)
ReadCount(t) ==
    /\ threads[t].pc = "read"
    /\ threads' = [threads EXCEPT ![t].pc = "store",
                                  ![t].count =
                                      feedback_count_of(adaptive_cache,
                                          CacheKey(threads[t].query, threads[t].direction))]
    /\ UNCHANGED <<adaptive_cache, feedback_file, feedback_calls, last, reader>>

\* self.adaptive_cache[cache_key] = {...}
Store(t) ==
    /\ threads[t].pc = "store"
    /\ adaptive_cache' = Put(adaptive_cache,
                             CacheKey(threads[t].query, threads[t].direction),
                             Entry(threads[t].translation, threads[t].count + 1))
    /\ threads' = [threads EXCEPT ![t].pc = "open"]
    /\ UNCHANGED <<feedback_file, feedback_calls, last, reader>>

\* self.adaptive_cache.pop(cache_key, None)
Remove(t) ==
    /\ threads[t].pc = "pop"
    /\ adaptive_cache' = Pop(adaptive_cache,
                             CacheKey(threads[t].query, threads[t].direction))
    /\ threads' = [threads EXCEPT ![t].pc = "open"]
    /\ UNCHANGED <<feedback_file, feedback_calls, last, reader>>

\* open(FEEDBACK_DATA_PATH, 'w', encoding='utf-8')
Open(t) ==
    /\ threads[t].pc = "open"
    /\ feedback_file' = truncate
    /\ threads' = [threads EXCEPT ![t].pc = "dump"]
    /\ UNCHANGED <<adaptive_cache, feedback_calls, last, reader>>

\* json.dump(self.adaptive_cache, f, ...): the text goes to the buffer of f
Dump(t) ==
    /\ threads[t].pc = "dump"
    /\ threads' = [threads EXCEPT ![t].pc = "close", ![t].buffer = adaptive_cache]
    /\ UNCHANGED <<adaptive_cache, feedback_file, feedback_calls, last, reader>>

\* the end of the with block: f is flushed and closed
Close(t) ==
    /\ threads[t].pc = "close"
    /\ feedback_file' = write_at_start(feedback_file, threads[t].buffer)
    /\ threads' = [threads EXCEPT ![t].pc = "done"]
    /\ UNCHANGED <<adaptive_cache, feedback_calls, last, reader>>

NextConcurrent ==
    \E t \in Threads :
        \/ \E q \in FeedbackQueries, d \in Directions, s \in Suggestions, c \in BOOLEAN :
              Begin(t, q, d, s, c)
        \/ ReadCount(t)
        \/ Store(t)
        \/ Remove(t)
        \/ Open(t)
        \/ Dump(t)
        \/ Close(t)

SpecConcurrent == Init /\ [][NextConcurrent]_vars

----------------------------------------------------------------------------
(* translate run by one thread while add_feedback runs in another: the       *)
(* statements of step 1 of translate, one step each                          *)

\* the thread that runs add_feedback
Writer == "t1"

\* the call begins: the query is stripped and cache_key is formed
ReaderBegin(query, direction) ==
    /\ reader.pc = "idle"
    /\ strip(query) # <<>>
    /\ reader' = [NoReader EXCEPT !.pc = "contains", !.query = strip(query),
                                  !.direction = direction, !.before = adaptive_cache]
    /\ UNCHANGED <<adaptive_cache, feedback_file, feedback_calls, last, threads>>

\* if cache_key in self.adaptive_cache: on False the call goes through steps
\* 2-7, which read nothing of the engine that add_feedback writes
ReaderContains ==
    /\ reader.pc = "contains"
    /\ reader' =
          IF CacheKey(reader.query, reader.direction) \in DOMAIN adaptive_cache
            THEN [reader EXCEPT !.pc = "subscript"]
            ELSE [reader EXCEPT !.pc = "done",
                                !.out = pipeline_table[<<reader.query, reader.direction, {}>>]]
    /\ UNCHANGED <<adaptive_cache, feedback_file, feedback_calls, last, threads>>

\* result = self.adaptive_cache[cache_key].copy(): KeyError when the key is
\* no longer in the dict, and nothing in translate catches it
ReaderSubscript ==
    /\ reader.pc = "subscript"
    /\ reader' =
          IF CacheKey(reader.query, reader.direction) \in DOMAIN adaptive_cache
            THEN [reader EXCEPT !.pc = "done",
                     !.out = Outcome("result",
                                 cached_result(adaptive_cache[CacheKey(reader.query,
                                                                       reader.direction)]),
                                 <<"adaptive_cache">>, <<>>,
                                 <<"translation_request", "translation_result">>)]
            ELSE [reader EXCEPT !.pc = "done",
                     !.out = Outcome("raise", NoResult, <<"adaptive_cache">>, <<>>,
                                     <<"translation_request">>)]
    /\ UNCHANGED <<adaptive_cache, feedback_file, feedback_calls, last, threads>>

\* feedback given call after call before the two threads start, then one
\* add_feedback call and one translate call side by side
NextRace ==
    \/ /\ threads[Writer].pc = "idle"
       /\ reader.pc = "idle"
       /\ \E q \in FeedbackQueries, d \in Directions, t \in Suggestions,
             c \in BOOLEAN, io \in IOs : AddFeedback(q, d, t, c, io)
    \/ Return
    \/ \E q \in FeedbackQueries, d \in Directions, s \in Suggestions, c \in BOOLEAN :
          Begin(Writer, q, d, s, c)
    \/ ReadCount(Writer)
    \/ Store(Writer)
    \/ Remove(Writer)
    \/ Open(Writer)
    \/ Dump(Writer)
    \/ Close(Writer)
    \/ \E q \in FeedbackQueries, d \in Directions : ReaderBegin(q, d)
    \/ ReaderContains
    \/ ReaderSubscript

SpecRace == Init /\ [][NextRace]_vars

----------------------------------------------------------------------------
(* The properties of translate                                               *)

\* the fixed order of the stages
StageOrder ==
    <<"adaptive_cache", "exact", "phonetic", "fuzzy", "compound", "pattern", "word_by_word">>

Methods == Range(StageOrder)

\* what one stage of the forward pipeline yields when it is run on its own
\* for the stripped query q, the cache stage apart
stage_alone(stage, q, fault) ==
    LET normalized_query == normalize_slang(q)
        phonetic_query == phonetic_normalize(normalized_query)
        exact_row == db_lookup(normalized_query, FORWARD, fault)
        phonetic_row == db_lookup(phonetic_query, FORWARD, fault)
    IN IF stage = "exact" THEN
           IF exact_row.tag = "raise" THEN Raises(<<>>)
           ELSE IF exact_row.tag = "row"
             THEN Returned(Result(exact_row.val, ExactConfidence, "exact", <<>>), <<>>)
             ELSE ReturnedNone(<<>>)
       ELSE IF stage = "phonetic" THEN
           IF phonetic_query = normalized_query THEN ReturnedNone(<<>>)
           ELSE IF phonetic_row.tag = "raise" THEN Raises(<<>>)
           ELSE IF phonetic_row.tag = "row"
             THEN Returned(Result(phonetic_row.val, PhoneticConfidence, "phonetic",
                                  <<<<"phonetic_form", phonetic_query>>>>), <<>>)
             ELSE ReturnedNone(<<>>)
       ELSE LET o == run_stage(stage, normalized_query, fault) IN
            [ret |-> o.ret, res |-> o.res, calls |-> <<>>]

\* stage_alone for the arguments of the model, computed once
stage_table ==
    [a \in PipelineArgs |->
        [i \in 2..7 |-> stage_alone(StageOrder[i], a[1], a[3])]]

\* the outcome of stage i of StageOrder for the translate call recorded in last
alone(i) ==
    LET q == strip(last.query)
        cache_key == CacheKey(q, last.direction)
    IN IF i = 1 THEN
           IF cache_key \in DOMAIN adaptive_cache
             THEN Returned(cached_result(adaptive_cache[cache_key]), <<>>)
             ELSE ReturnedNone(<<>>)
       ELSE stage_table[<<q, last.direction, last.fault>>][i]

\* is the phonetic stage run for the stripped query q: only when the phonetic
\* form differs from the normalized query
phonetic_tried(q) ==
    LET normalized_query == normalize_slang(q) IN
    phonetic_normalize(normalized_query) # normalized_query

\* phonetic_tried for the arguments of the model, computed once
tried_table == [a \in PipelineArgs |-> phonetic_tried(a[1])]

\* is stage i run at all in the translate call recorded in last
attempted(i) ==
    i # 3 \/ tried_table[<<strip(last.query), last.direction, last.fault>>]

\* the stages run when the stages 1..i are gone through
ran(i) == SelectSeq(SubSeq(StageOrder, 1, i), LAMBDA s :
              s # "phonetic" \/ attempted(3))

\* the first stage that does not miss (0: every stage misses)
first_not_missing ==
    IF \E i \in 1..7 : alone(i).ret # "none"
      THEN CHOOSE i \in 1..7 :
               alone(i).ret # "none" /\ \A j \in 1..(i - 1) : alone(j).ret = "none"
      ELSE 0

\* the first stage that yields a result when an exception of the collaborator
\* in a stage counts as a miss of that stage (0: none does)
first_succeeding ==
    IF \E i \in 1..7 : alone(i).ret = "result"
      THEN CHOOSE i \in 1..7 :
               alone(i).ret = "result" /\ \A j \in 1..(i - 1) : alone(j).ret # "result"
      ELSE 0

ForwardCall ==
    last.op = "translate" /\ last.direction = FORWARD /\ strip(last.query) # <<>>

\* C1: in a forward translate call on a non-blank query the stages are run in
\* the fixed order up to the first one that does not miss and no further;
\* when that stage succeeds its result is the one returned; and none is
\* returned only when every stage has been run and has missed.  (What a call
\* does when that stage ends with an exception of the collaborator is the
\* subject of C3 and C8.)
C1_EarliestStage ==
    ForwardCall =>
        LET i == first_not_missing
            o == last.out
        IN /\ o.stages = ran(IF i = 0 THEN 7 ELSE i)
           /\ i = 0 => o.ret = "none"
           /\ (i > 0 /\ alone(i).ret = "result") =>
                 /\ o.ret = "result"
                 /\ o.res = alone(i).res
                 /\ o.res.method = StageOrder[i]
           /\ o.ret = "none" => i = 0
           /\ o.ret = "result" => i > 0 /\ alone(i).ret = "result"

\* C1: a forward call answered by the pattern stage after the cache, the
\* exact, the fuzzy and the compound stage have missed
C1_Witness ==
    /\ ForwardCall
    /\ last.out.ret = "result"
    /\ last.out.res.method = "pattern"
    /\ last.out.stages = <<"adaptive_cache", "exact", "fuzzy", "compound", "pattern">>

\* C2: translate(q, d) right after add_feedback(q, d, t, True) on a
\* non-blank q returns t with confidence 0.9 and method adaptive_cache, and
\* runs no other stage and makes no lookup
C2_FeedbackThenResolve ==
    (last.op = "translate" /\ last.after_feedback /\ last.is_correct
        /\ strip(last.query) # <<>>) =>
        /\ last.out.ret = "result"
        /\ last.out.res.translation = last.translation
        /\ last.out.res.confidence = Q(9, 10)
        /\ last.out.res.method = "adaptive_cache"
        /\ last.out.stages = <<"adaptive_cache">>
        /\ last.out.calls = <<>>

\* C3: every translate call ends by returning a result or none
C3_NeverRaises ==
    last.op = "translate" => last.out.ret \in {"result", "none"}

\* C4: a reverse translate call returns no result of the stages 4..7, runs
\* none of them and makes no lookup of theirs
C4_ReverseStages ==
    (last.op = "translate" /\ last.direction = REVERSE) =>
        /\ last.out.ret = "result" =>
              last.out.res.method \notin {"fuzzy", "compound", "pattern", "word_by_word"}
        /\ Range(last.out.stages) \subseteq {"adaptive_cache", "exact", "phonetic"}
        /\ \A i \in DOMAIN last.out.calls : last.out.calls[i][1] \in {"exact", "phonetic"}

\* C4: a reverse call that the cache, the exact and the phonetic stage all
\* miss, on a query the forward pipeline answers in a later stage
C4_Witness ==
    /\ last.op = "translate"
    /\ last.direction = REVERSE
    /\ last.query = Q_chotobari
    /\ last.fault = {}
    /\ last.out.ret = "none"
    /\ pipeline_table[<<Q_chotobari, FORWARD, {}>>].res.method = "compound"

AllDone == \A t \in Threads : threads[t].pc = "done"

\* add_feedback of thread a, then that of thread b, one after the other on
\* the new engine
serial(a, b) ==
    LET r == add_feedback(EmptyCache, File("absent", EmptyCache, 0),
                          threads[a].query, threads[a].direction,
                          threads[a].translation, threads[a].is_correct, "ok")
    IN add_feedback(r.cache, r.file, threads[b].query, threads[b].direction,
                    threads[b].translation, threads[b].is_correct, "ok")

\* C5: when two concurrent add_feedback calls have ended, the cache and the
\* file are those that one of the two serial orders of the calls leaves
C5_Serializable ==
    AllDone =>
        \E a \in Threads : \E b \in Threads \ {a} :
            /\ adaptive_cache = serial(a, b).cache
            /\ feedback_file = serial(a, b).file

\* C6: translate(q, d) right after add_feedback(q, d, _, False) on a key
\* that had an entry returns no adaptive_cache result: it returns what the
\* pipeline from the exact stage on yields for q
C6_Retraction ==
    (last.op = "translate" /\ last.after_feedback /\ ~last.is_correct
        /\ last.had_entry /\ strip(last.query) # <<>>) =>
        /\ last.out.res.method # "adaptive_cache"
        /\ last.out = pipeline_table[<<strip(last.query), last.direction, last.fault>>]

\* C7: a result returned by translate on a non-blank query has a confidence
\* in [0,1] and a method of the enumeration
C7_ResultRange ==
    (last.op = "translate" /\ strip(last.query) # <<>> /\ last.out.ret = "result") =>
        /\ q_le(Q(0, 1), last.out.res.confidence)
        /\ q_le(last.out.res.confidence, Q(1, 1))
        /\ last.out.res.method \in Methods

\* C7: a result from the cache, after two add_feedback calls
C7_Witness ==
    /\ last.op = "translate"
    /\ feedback_calls = 2
    /\ last.out.ret = "result"
    /\ last.out.res.method = "adaptive_cache"
    /\ last.out.res.confidence = Q(9, 10)

\* C8: when the collaborator raises in a stage of a forward call, that stage
\* counts as a miss: the call returns the result of the first stage that
\* succeeds, and none when no stage does
C8_ThrowIsMiss ==
    (ForwardCall /\ first_not_missing > 0 /\ alone(first_not_missing).ret = "raise") =>
        LET i == first_succeeding IN
        /\ i = 0 => last.out.ret = "none"
        /\ i > 0 => last.out.ret = "result" /\ last.out.res = alone(i).res

\* C9: add_feedback ends without an exception, and when its write of the
\* file has failed, translate(q, d) right after it shows the change: the
\* suggested translation after positive feedback, no cache result after
\* negative feedback
C9_FailedWriteKeepsMutation ==
    /\ last.op = "add_feedback" => last.out.ret = "none"
    /\ (last.op = "translate" /\ last.after_feedback /\ last.io # "ok"
          /\ strip(last.query) # <<>>) =>
          IF last.is_correct
            THEN /\ last.out.ret = "result"
                 /\ last.out.res.method = "adaptive_cache"
                 /\ last.out.res.translation = last.translation
            ELSE last.out.res.method # "adaptive_cache"

C11_ReversePhonetic ==
    (last.op = "translate" /\ last.direction = REVERSE /\ strip(last.query) # <<>>
        /\ CacheKey(strip(last.query), REVERSE) \notin DOMAIN adaptive_cache) =>
        LET normalized_query == normalize_slang(strip(last.query))
            phonetic_query == phonetic_normalize(normalized_query)
            exact_row == db_lookup(normalized_query, REVERSE, last.fault)
            phonetic_row == db_lookup(phonetic_query, REVERSE, last.fault)
        IN (exact_row.tag = "none" /\ phonetic_query # normalized_query
              /\ phonetic_row.tag = "row") =>
               /\ last.out.ret = "result"
               /\ last.out.res.method = "phonetic"
               /\ last.out.res.translation = phonetic_row.val

\* the pattern rule of the given name
matcher_named(name) ==
    pattern_matchers[CHOOSE k \in DOMAIN pattern_matchers : pattern_matchers[k].name = name]

T_my_home == <<"m","y"," ","h","o","m","e">>

T_I_will_home == <<"I"," ","w","i","l","l"," ","h","o","m","e">>

\* C12: in a forward call answered by a pattern rule, the text looked up and
\* put into the rule's template is the base phrase and none of the rule's
\* fixed marker words: "amar bari" gives "my home" and "ami bari korbo"
\* gives "I will home" (bari -> home)
C12_BasePhrase ==
    (ForwardCall /\ last.out.ret = "result" /\ last.out.res.method = "pattern") =>
        LET m == matcher_named(last.out.res.meta[1][2])
            base_part == last.out.res.meta[2][2]
        IN /\ lower(base_part) \notin Range(m.first) \cup Range(m.markers)
           /\ strip(last.query) = Q_amar_bari => last.out.res.translation = T_my_home
           /\ strip(last.query) = Q_ami_bari_korbo =>
                 last.out.res.translation = T_I_will_home

\* what the caller of translate gets back from a call that ended as out
returned_value(out) == <<out.ret, out.res>>

\* what the caller gets back from the calls on a valid query that miss
miss_returns ==
    { returned_value(pipeline_table[a]) :
        a \in {b \in PipelineArgs : b[1] # <<>> /\ pipeline_table[b].ret = "none"} }

\* C13: what translate gives back to its caller for an empty or blank query
\* differs from what it gives back for a valid query that misses
C13_InvalidDistinct ==
    (last.op = "translate" /\ strip(last.query) = <<>>) =>
        returned_value(last.out) \notin miss_returns

\* C14: a translate call with a direction value that is neither of the two
\* supported ones, the collaborator raising nothing, runs none of the stages
\* 4..7 and returns none, whatever feedback has been given before
C14_UnsupportedDirection ==
    (last.op = "translate" /\ last.direction \notin Directions /\ last.fault = {}) =>
        /\ last.out.ret = "none"
        /\ Range(last.out.stages) \cap {"fuzzy", "compound", "pattern", "word_by_word"} = {}

\* C15: right after an add_feedback call whose write of the file succeeded,
\* positive or negative, the file is a JSON text of exactly the cache: the
\* same keys and under each key the same entry
C15_FileIsCache ==
    (last.op = "add_feedback" /\ last.io = "ok") =>
        /\ feedback_file.state = "json"
        /\ DOMAIN feedback_file.content = DOMAIN adaptive_cache
        /\ \A k \in DOMAIN adaptive_cache : feedback_file.content[k] = adaptive_cache[k]
        /\ feedback_file.size = json_length(adaptive_cache)

\* C15: negative feedback on a key with no entry, written with success while
\* the cache holds an entry under another key
C15_Witness ==
    /\ last.op = "add_feedback"
    /\ last.io = "ok"
    /\ ~last.is_correct
    /\ ~last.had_entry
    /\ adaptive_cache # EmptyCache
    /\ feedback_file.content = adaptive_cache

\* C16: a translate call that ran side by side with an add_feedback call on
\* its key has not raised, and has returned what translate returns on the
\* cache as the call found it or on the cache as the feedback left it
C16_ConcurrentReadSafe ==
    (/\ reader.pc = "done"
     /\ threads[Writer].pc # "idle"
     /\ CacheKey(threads[Writer].query, threads[Writer].direction)
           = CacheKey(reader.query, reader.direction)) =>
        /\ reader.out.ret # "raise"
        /\ returned_value(reader.out) \in
              { returned_value(translate(reader.query, reader.direction, c, {}).out) :
                  c \in {reader.before, adaptive_cache} }

\* C17: a translate call on a query that is not blank reports a miss
\* (translation_miss) exactly when it returns none, in either direction
C17_MissReported ==
    (last.op = "translate" /\ strip(last.query) # <<>> /\ last.out.ret # "raise") =>
        (last.out.ret = "none" <=> "translation_miss" \in Range(last.out.events))

T_small_home == <<"s","m","a","l","l"," ","h","o","m","e">>

\* a forward translate call on 'chotobari', the collaborator answering
chotobari_call ==
    ForwardCall /\ strip(last.query) = Q_chotobari /\ last.fault = {}

\* the call has returned 'small home', 0.85, compound, split into choto and
\* bari by the rule of the given description
chotobari_split_by(description) ==
    /\ last.out.ret = "result"
    /\ last.out.res.translation = T_small_home
    /\ last.out.res.confidence = Q(17, 20)
    /\ last.out.res.method = "compound"
    /\ last.out.res.meta =
          <<<<"split_parts", <<<<"c","h","o","t","o">>, T_bari>>>>,
            <<"description", description>>>>

\* C18, as stated: 'chotobari' forward returns 'small home', 0.85, compound,
\* and the rule that splits it into choto and bari is the adjective rule
C18_AdjectiveRule ==
    chotobari_call => chotobari_split_by("adjective compounds")

\* C18, amended: 'chotobari' forward returns 'small home', 0.85, compound,
\* and the rule that splits it into choto and bari is the house/building
\* rule, the first rule in declaration order whose pattern matches
C18_HouseRule ==
    chotobari_call =>
        /\ chotobari_split_by("house/building compounds")
        /\ compound_rules[1].description = "house/building compounds"
        /\ compound_parts(compound_rules[1], Q_chotobari) # <<>>

\* C18: translate('chotobari', forward) has returned a compound result
C18_Witness ==
    chotobari_call /\ last.out.res.method = "compound" /\ ~last.second

\* the edit distance of a and b (insertions, deletions, substitutions) is at
\* most n
RECURSIVE edits_within(_, _, _)
edits_within(a, b, n) ==
    IF n < 0 THEN FALSE
    ELSE IF a = <<>> THEN Len(b) <= n
    ELSE IF b = <<>> THEN Len(a) <= n
    ELSE IF Head(a) = Head(b) THEN edits_within(Tail(a), Tail(b), n)
    ELSE \/ edits_within(Tail(a), b, n - 1)
         \/ edits_within(a, Tail(b), n - 1)
         \/ edits_within(Tail(a), Tail(b), n - 1)

longest(a, b) == IF Len(a) > Len(b) THEN Len(a) ELSE Len(b)

\* the edit distances d of a and b with 1 - d / longest(a, b) >= 0.8, that
\* is with 5 d <= longest(a, b): the edit distance itself or nothing
near_distances(a, b) ==
    LET allowed == {n \in 0..(longest(a, b) \div 5) : edits_within(a, b, n)}
    IN {n \in allowed : \A m \in allowed : n <= m}

\* 1 - d / longest, for the phrases at the threshold or above
near_similarity(query, phrase) ==
    LET d == CHOOSE n \in near_distances(query, phrase) : TRUE
    IN Q(longest(query, phrase) - d, longest(query, phrase))

\* the phrases at the threshold or above that the dictionary resolves
qualifying(query) ==
    {k \in DOMAIN demo_phrases :
        /\ near_distances(query, demo_phrases[k]) # {}
        /\ find_translation(demo_phrases[k], FORWARD).tag = "row"}

\* what the claim has the matcher return on a lower-cased query: nothing, or
\* the earliest of the qualifying phrases of the highest similarity
fuzzy_claimed(query) ==
    IF qualifying(query) = {} THEN [found |-> FALSE, k |-> 0]
    ELSE [found |-> TRUE,
          k |-> CHOOSE k \in qualifying(query) :
                  \A j \in qualifying(query) :
                      /\ q_le(near_similarity(query, demo_phrases[j]),
                              near_similarity(query, demo_phrases[k]))
                      /\ near_similarity(query, demo_phrases[j])
                            = near_similarity(query, demo_phrases[k]) => k <= j]

fuzzy_claimed_table ==
    [query \in {normalize_slang(strip(q)) : q \in Queries} |-> fuzzy_claimed(lower(query))]

\* C19: a forward call that reaches the fuzzy matcher, the collaborator
\* answering, returns from it the translation of the earliest reference phrase
\* of the highest similarity 1 - d / max(len), d the edit distance of the
\* lower-cased query and the phrase, among those of similarity >= 0.8
\* that the dictionary resolves, with confidence similarity * 0.9 and method
\* fuzzy; when no phrase qualifies the matcher returns nothing and the call
\* goes on to the compound stage; 'dhonobad' gets confidence 0.80
C19_FuzzyBest ==
    (ForwardCall /\ last.fault = {} /\ "fuzzy" \in Range(last.out.stages)) =>
        LET query == normalize_slang(strip(last.query))
            claimed == fuzzy_claimed_table[query]
        IN /\ ~claimed.found =>
                /\ last.out.res.method # "fuzzy"
                /\ "compound" \in Range(last.out.stages)
           /\ claimed.found =>
                /\ last.out.ret = "result"
                /\ last.out.res.method = "fuzzy"
                /\ last.out.res.translation
                      = find_translation(demo_phrases[claimed.k], FORWARD).val
                /\ last.out.res.confidence
                      = q_mul(near_similarity(lower(query), demo_phrases[claimed.k]),
                              Q(9, 10))
           /\ strip(last.query) \in {Q_dhonobad, Q_Dhonobad} =>
                /\ last.out.res.method = "fuzzy"
                /\ last.out.res.confidence = Q(80, 100)

\* C19: translate('dhonobad', forward), one deletion away from 'dhonnobad',
\* has returned the fuzzy result 'thank you'
C19_Witness ==
    /\ ForwardCall
    /\ last.fault = {}
    /\ strip(last.query) = Q_dhonobad
    /\ last.out.res.method = "fuzzy"
    /\ last.out.res.translation = <<"t","h","a","n","k"," ","y","o","u">>
    /\ ~last.second

\* the token resolves through the dictionary
resolves(token) == find_translation(token, FORWARD).tag = "row"

\* the tokens in order, each resolved one replaced by its translation
replaced(tokens) ==
    [i \in DOMAIN tokens |->
        IF resolves(tokens[i]) THEN find_translation(tokens[i], FORWARD).val
        ELSE tokens[i]]

\* the number of tokens that resolve
resolved_count(tokens) == Cardinality({i \in DOMAIN tokens : resolves(tokens[i])})

\* C20: a forward call that reaches the word-by-word fallback, the
\* collaborator answering, on n >= 1 tokens of which k resolve: for k >= 1 it
\* returns the tokens in order, resolved ones replaced and the others
\* unchanged, joined by spaces, confidence min(0.85, (k / n) * 0.7), method
\* word_by_word; for k = 0 it returns none
C20_WordByWord ==
    (ForwardCall /\ last.fault = {} /\ "word_by_word" \in Range(last.out.stages)) =>
        LET tokens == split(normalize_slang(strip(last.query)))
            n == Len(tokens)
            k == resolved_count(tokens)
        IN /\ n >= 1
           /\ k = 0 => last.out.ret = "none"
           /\ k >= 1 =>
                /\ last.out.ret = "result"
                /\ last.out.res.method = "word_by_word"
                /\ last.out.res.translation = join(SP, replaced(tokens))
                /\ last.out.res.confidence
                      = q_min(Q(85, 100), q_mul(Q(k, n), Q(7, 10)))

\* C20: the fallback has returned a result for a query of which some tokens
\* resolve and some do not
C20_Witness ==
    /\ ForwardCall
    /\ last.fault = {}
    /\ last.out.res.method = "word_by_word"
    /\ resolved_count(split(normalize_slang(strip(last.query)))) \in
          1..(Len(split(normalize_slang(strip(last.query)))) - 1)
    /\ ~last.second

\* C21: a translate call leaves the cache and the feedback file as they were,
\* a hit included (the entry keeps its method, the returned copy says
\* adaptive_cache); a step that changes either is an add_feedback call
C21_TranslateFrame ==
    [][((last'.op = "translate" /\ last' # last) =>
            (/\ adaptive_cache' = adaptive_cache
             /\ feedback_file' = feedback_file
             /\ \A k \in DOMAIN adaptive_cache' :
                   adaptive_cache'[k].method = "user_feedback"))
       /\ ((adaptive_cache' # adaptive_cache \/ feedback_file' # feedback_file) =>
              last'.op = "add_feedback")]_vars

\* C21: a second translate call in a row that the cache answered, the entry
\* and the file still as the feedback left them
C21_Witness ==
    /\ last.op = "translate"
    /\ last.after_feedback
    /\ last.second
    /\ last.out.res.method = "adaptive_cache"
    /\ CacheKey(strip(last.query), last.direction) \in DOMAIN adaptive_cache
    /\ adaptive_cache[CacheKey(strip(last.query), last.direction)].method = "user_feedback"
    /\ feedback_file.state = "json"
    /\ feedback_file.content = adaptive_cache

\* the key of the add_feedback call just made
fed_key == CacheKey(last.query, last.direction)

\* C22: a positive feedback leaves under its key an entry of confidence 0.9
\* whose feedback_count is 1 when the key had no entry (never had one, or
\* lost it to a negative feedback) and one more than before when it had one;
\* a negative feedback leaves no entry under its key; no count is below 1
C22_FeedbackCount ==
    [][(last'.op = "add_feedback" /\ last.op = "none") =>
          (/\ last'.is_correct =>
                /\ fed_key' \in DOMAIN adaptive_cache'
                /\ adaptive_cache'[fed_key'].confidence = Q(9, 10)
                /\ adaptive_cache'[fed_key'].feedback_count =
                      IF fed_key' \in DOMAIN adaptive_cache
                        THEN adaptive_cache[fed_key'].feedback_count + 1
                        ELSE 1
           /\ ~last'.is_correct => fed_key' \notin DOMAIN adaptive_cache'
           /\ \A k \in DOMAIN adaptive_cache' : adaptive_cache'[k].feedback_count >= 1)]_vars

\* C22: the third positive feedback in a row on one key
C22_Witness ==
    /\ last.op = "add_feedback"
    /\ last.is_correct
    /\ last.had_entry
    /\ feedback_calls = 3
    /\ adaptive_cache[fed_key].feedback_count = 3

\* the rule pairs in the order the claim gives them
ClaimedRules == <<
    <<<<"p","h">>, <<"f">>>>, <<<<"t","h">>, <<"t">>>>, <<<<"c","k">>, <<"k">>>>,
    <<<<"c","h">>, <<"c">>>>, <<<<"s","h">>, <<"s">>>>, <<<<"g","h">>, <<"g">>>>,
    <<<<"k","h">>, <<"k">>>>, <<<<"b","h">>, <<"b">>>>, <<<<"d","h">>, <<"d">>>>,
    <<<<"j","h">>, <<"j">>>>, <<<<"o","o">>, <<"u">>>>, <<<<"e","e">>, <<"i">>>> >>

\* where old first occurs in s (0: nowhere)
first_at(s, old) ==
    LET at == {i \in 1..(Len(s) - Len(old) + 1) : SubSeq(s, i, i + Len(old) - 1) = old}
    IN IF at = {} THEN 0 ELSE CHOOSE i \in at : \A j \in at : i <= j

\* s with every occurrence of old, from the left, replaced by new
RECURSIVE rewritten(_, _, _)
rewritten(s, old, new) ==
    IF first_at(s, old) = 0 THEN s
    ELSE SubSeq(s, 1, first_at(s, old) - 1) \o new
           \o rewritten(SubSeq(s, first_at(s, old) + Len(old), Len(s)), old, new)

\* the rules one at a time, each on what the earlier ones have left
RECURSIVE one_at_a_time(_, _)
one_at_a_time(rules, s) ==
    IF rules = <<>> THEN s
    ELSE one_at_a_time(Tail(rules), rewritten(s, Head(rules)[1], Head(rules)[2]))

\* every rule at once on the original string: at each place, from the left,
\* the first rule that matches there
RECURSIVE at_once(_, _)
at_once(rules, s) ==
    IF s = <<>> THEN <<>>
    ELSE LET here == {k \in DOMAIN rules :
                         /\ Len(rules[k][1]) <= Len(s)
                         /\ SubSeq(s, 1, Len(rules[k][1])) = rules[k][1]}
         IN IF here = {} THEN <<Head(s)>> \o at_once(rules, Tail(s))
            ELSE LET k == CHOOSE x \in here : \A y \in here : x <= y
                 IN rules[k][2] \o at_once(rules, SubSeq(s, Len(rules[k][1]) + 1, Len(s)))

\* C23: _phonetic_normalize returns the lower-cased text rewritten by the
\* rules ph, th, ck, ch, sh, gh, kh, bh, dh, jh, oo, ee one at a time in this
\* order, each on what the earlier ones have left; 'ckh' becomes 'k' and
\* 'chk' becomes 'ck'
C23_PhoneticInOrder ==
    last.op = "phonetic_normalize" =>
        /\ last.out.res.translation = one_at_a_time(ClaimedRules, lower(last.query))
        /\ last.query = <<"c","k","h">> => last.out.res.translation = <<"k">>
        /\ last.query = <<"c","h","k">> => last.out.res.translation = <<"c","k">>

\* C23: 'ckh' has been normalized, and to something else than the rules
\* applied all at once give
C23_Witness ==
    /\ last.op = "phonetic_normalize"
    /\ last.query = <<"c","k","h">>
    /\ last.out.res.translation # at_once(ClaimedRules, lower(last.query))

\* the compound rules that match the query
compound_matching(query) ==
    {k \in DOMAIN compound_rules : compound_parts(compound_rules[k], query) # <<>>}

\* processing the matching compound rule k raises: a lookup of a part does
compound_raising(k, query, fault) ==
    \E i \in 1..2 : compound_parts(compound_rules[k], query)[i] \in fault

\* the pattern rules that match the query
pattern_matching(query) ==
    {k \in DOMAIN pattern_matchers : pattern_groups(pattern_matchers[k], query).matched}

\* processing the matching pattern rule k raises: the lookup of the base
\* does, or, the base not being found, the lookup of one of its words
pattern_raising(k, query, fault) ==
    LET base_part == pattern_groups(pattern_matchers[k], query).g1
    IN \/ base_part \in fault
       \/ /\ find_translation(base_part, FORWARD).tag = "none"
          /\ \E w \in Range(split(base_part)) : w \in fault

\* the first of the rules of ks, in declaration order, whose processing does
\* not raise (0: none)
first_not_raising(ks, raising(_)) ==
    IF \A k \in ks : raising(k) THEN 0
    ELSE CHOOSE k \in ks : ~raising(k) /\ \A j \in ks : j < k => raising(j)

\* for the forward arguments of the model, the compound rule and the pattern
\* rule that are the first not to raise
first_not_raising_table ==
    [a \in {b \in PipelineArgs : b[2] = FORWARD} |->
        LET query == normalize_slang(a[1])
            compound_raises(k) == compound_raising(k, query, a[3])
            pattern_raises(k) == pattern_raising(k, query, a[3])
        IN [c |-> first_not_raising(compound_matching(query), compound_raises),
            p |-> first_not_raising(pattern_matching(query), pattern_raises)]]

\* C24: in a forward call that reaches the compound stage, resp. the pattern
\* stage, a matching rule whose processing raises is skipped: the stage
\* returns the result of the first matching rule, in declaration order,
\* whose processing does not raise, returns none (the call going on to the
\* next stage) when there is no such rule, and the error never leaves it
C24_RuleErrorsSkipped ==
    ForwardCall =>
        LET c == first_not_raising_table[<<strip(last.query), FORWARD, last.fault>>].c
            p == first_not_raising_table[<<strip(last.query), FORWARD, last.fault>>].p
            stages == last.out.stages
        IN /\ "compound" \in Range(stages) =>
                /\ ~(last.out.ret = "raise" /\ stages[Len(stages)] = "compound")
                /\ c # 0 =>
                      /\ last.out.ret = "result"
                      /\ last.out.res.method = "compound"
                      /\ last.out.res.meta[2] = <<"description", compound_rules[c].description>>
                /\ c = 0 => "pattern" \in Range(stages)
           /\ "pattern" \in Range(stages) =>
                /\ ~(last.out.ret = "raise" /\ stages[Len(stages)] = "pattern")
                /\ p # 0 =>
                      /\ last.out.ret = "result"
                      /\ last.out.res.method = "pattern"
                      /\ last.out.res.meta[1] = <<"pattern", pattern_matchers[p].name>>
                /\ p = 0 => "word_by_word" \in Range(stages)

\* C24: 'chotorbari' with the lookup of 'bari' raising: the house rule has
\* raised and the adjective rule, two rules later, has given the result
C24_Witness ==
    /\ ForwardCall
    /\ strip(last.query) = Q_chotorbari
    /\ compound_raising(1, Q_chotorbari, last.fault)
    /\ last.out.res.method = "compound"
    /\ last.out.res.meta[2] = <<"description", "adjective compounds">>
    /\ ~last.second

\* what the claim has the splitter return for a query that the rule k is the
\* first to match: the two parts, resolved ones replaced, and
\* min(0.9, (sum of weights / 2) * 0.85) with weights 1.0 and 0.3
compound_claimed(k, query) ==
    LET parts == compound_parts(compound_rules[k], query)
        tenths(part) == IF resolves(part) THEN 10 ELSE 3
    IN [parts |-> parts,
        translation |-> join(SP, replaced(parts)),
        found |-> resolved_count(parts),
        confidence |-> q_min(Q(9, 10),
                             q_mul(Q(tenths(parts[1]) + tenths(parts[2]), 20), Q(85, 100)))]

\* for the queries of the model: the first rule that matches (0: none) and
\* what the claim has the splitter return
compound_claimed_table ==
    [q \in {normalize_slang(strip(x)) : x \in Queries} |->
        LET ks == compound_matching(q)
            k == IF ks = {} THEN 0 ELSE CHOOSE x \in ks : \A y \in ks : x <= y
        IN [k |-> k, claimed |-> IF k = 0 THEN <<>> ELSE <<compound_claimed(k, q)>>]]

\* C25: a forward call that reaches the compound stage, the collaborator
\* answering, returns from it for the first rule that matches the query,
\* whether or not the parts resolve: the parts in order, resolved ones
\* replaced, confidence min(0.9, (sum of weights / 2) * 0.85), which is 0.85,
\* 0.5525 or 0.255 for two, one or no part found and never above 0.85; when
\* no rule matches the stage returns nothing
C25_CompoundWeights ==
    (ForwardCall /\ last.fault = {} /\ "compound" \in Range(last.out.stages)) =>
        LET row == compound_claimed_table[normalize_slang(strip(last.query))]
        IN /\ row.k = 0 =>
                /\ last.out.res.method # "compound"
                /\ "pattern" \in Range(last.out.stages)
           /\ row.k # 0 =>
                /\ last.out.ret = "result"
                /\ last.out.res.method = "compound"
                /\ last.out.res.translation = row.claimed[1].translation
                /\ last.out.res.confidence = row.claimed[1].confidence
                /\ last.out.res.meta[1] = <<"split_parts", row.claimed[1].parts>>
                /\ last.out.res.confidence =
                      IF row.claimed[1].found = 2 THEN Q(85, 100)
                      ELSE IF row.claimed[1].found = 1 THEN Q(5525, 10000)
                      ELSE Q(255, 1000)
                /\ q_le(last.out.res.confidence, Q(85, 100))

\* C25: 'lalmas' has been split into lal and mas, neither of which the
\* dictionary resolves, and returned as 'lal mas' with confidence 0.255
C25_Witness ==
    /\ ForwardCall
    /\ last.fault = {}
    /\ strip(last.query) = Q_lalmas
    /\ last.out.res.method = "compound"
    /\ last.out.res.translation = <<"l","a","l"," ","m","a","s">>
    /\ last.out.res.confidence = Q(255, 1000)
    /\ ~last.second

\* the lookups of the phonetic stage among the calls made
phonetic_calls(calls) == {i \in DOMAIN calls : calls[i][1] = "phonetic"}

\* for the arguments of the model: the slang-normalized query, its phonetic
\* form, and whether the exact lookup misses
forms_table ==
    [a \in PipelineArgs |->
        [normalized_query |-> normalize_slang(a[1]),
         phonetic_query |-> phonetic_normalize(normalize_slang(a[1])),
         exact_missed |-> db_lookup(normalize_slang(a[1]), a[2], a[3]).tag = "none"]]

\* C26: in a translate call on a query that is not blank, the phonetic lookup
\* is made exactly when the cache and the exact lookup missed and the
\* phonetic form differs from the slang-normalized query, and it is made on
\* the phonetic form; when the two are equal the stage is left out, the
\* forward call going on to the fuzzy stage and the reverse call returning
\* none after its one lookup
C26_PhoneticIff ==
    (last.op = "translate" /\ strip(last.query) # <<>>) =>
        LET forms == forms_table[<<strip(last.query), last.direction, last.fault>>]
            normalized_query == forms.normalized_query
            phonetic_query == forms.phonetic_query
            missed ==
                /\ CacheKey(strip(last.query), last.direction) \notin DOMAIN adaptive_cache
                /\ forms.exact_missed
            made == phonetic_calls(last.out.calls)
        IN /\ made # {} <=> (missed /\ phonetic_query # normalized_query)
           /\ Cardinality(made) <= 1
           /\ \A i \in made :
                 last.out.calls[i] = Call("phonetic", phonetic_query, last.direction)
           /\ (missed /\ phonetic_query = normalized_query) =>
                 /\ "phonetic" \notin Range(last.out.stages)
                 /\ IF last.direction = FORWARD
                      THEN /\ Len(last.out.stages) >= 3
                           /\ SubSeq(last.out.stages, 1, 3)
                                 = <<"adaptive_cache", "exact", "fuzzy">>
                      ELSE /\ last.out.ret = "none"
                           /\ last.out.calls
                                 = <<Call("exact", normalized_query, last.direction)>>

\* C26: a reverse call on 'ami', whose phonetic form is 'ami' again, has
\* returned none after the exact lookup alone
C26_Witness ==
    /\ last.op = "translate"
    /\ last.direction = REVERSE
    /\ strip(last.query) = Q_ami
    /\ phonetic_normalize(normalize_slang(Q_ami)) = normalize_slang(Q_ami)
    /\ last.out.ret = "none"
    /\ Len(last.out.calls) = 1
    /\ ~last.second

\* the keys of the slang map
slang_keys == {slang_map[i][1] : i \in DOMAIN slang_map}

\* the canonical value of a key
canonical(key) == slang_map[CHOOSE i \in DOMAIN slang_map : slang_map[i][1] = key][2]

\* is the token slang: lower-cased and stripped of non-word characters it is
\* a key of the slang map
is_slang(token) == strip_non_word(lower(token)) \in slang_keys

\* the tokens in order, each slang token replaced by its canonical value
canonical_tokens(tokens) ==
    [i \in DOMAIN tokens |->
        IF is_slang(tokens[i]) THEN canonical(strip_non_word(lower(tokens[i])))
        ELSE tokens[i]]

\* C27: _normalize_slang returns the tokens of the text in order, joined by
\* spaces, each token that is slang replaced by its canonical value and every
\* other token as it was, case and punctuation included; and applied to what
\* it has returned it returns the same again
C27_SlangTokens ==
    [][/\ (last'.op = "normalize_slang" /\ last.op = "none") =>
             last'.out.res.translation = join(SP, canonical_tokens(split(last'.query)))
       /\ (last'.op = "normalize_slang" /\ last.op = "normalize_slang") =>
             last'.out = last.out]_vars

\* C27: 'u uK' has become 'you uK', the slang token rewritten and the other
\* token kept with its capital, and the normalizer has been applied again
C27_Witness ==
    /\ last.op = "normalize_slang"
    /\ last.second
    /\ last.query = <<"u", " ", "u", "K">>
    /\ last.out.res.translation = <<"y", "o", "u", " ", "u", "K">>

\* the cache entry translate(query, direction) looks at, if there is one
entry_for(cache, query, direction) ==
    IF CacheKey(strip(query), direction) \in DOMAIN cache
    THEN <<cache[CacheKey(strip(query), direction)]>>
    ELSE <<>>

\* what translate(query, direction) returns on the cache
resolve_result(cache, query, direction) ==
    returned_value(translate(query, direction, cache, {}).out)

\* C28: add_feedback(q, d, ...) leaves the cache entry and the result of
\* translate(q2, d2) as they were for every query q2 and direction d2 other
\* than those with strip(q2) = q, character for character, and d2 = d
C28_OnlyOwnPair ==
    [][(last'.op = "add_feedback" /\ last.op = "none") =>
          \A q2 \in KeyQueries, d2 \in KeyDirections :
             (~(strip(q2) = last'.query /\ d2 = last'.direction)) =>
                (/\ entry_for(adaptive_cache', q2, d2) = entry_for(adaptive_cache, q2, d2)
                 /\ resolve_result(adaptive_cache', q2, d2)
                      = resolve_result(adaptive_cache, q2, d2))]_vars

\* no lookup the call has made has returned a row
no_lookup_succeeded(calls, fault) ==
    \A i \in DOMAIN calls : db_lookup(calls[i][2], calls[i][3], fault).tag # "row"

\* for each call of the model that goes past the cache: has none of the
\* lookups it makes succeeded
without_lookup_table ==
    [a \in PipelineArgs |-> no_lookup_succeeded(pipeline_table[a].calls, a[3])]

\* a forward translate call has ended that found no entry in the cache and
\* none of whose lookups has succeeded
forward_without_lookup ==
    /\ last.op = "translate"
    /\ last.direction = FORWARD
    /\ strip(last.query) # <<>>
    /\ CacheKey(strip(last.query), last.direction) \notin DOMAIN adaptive_cache
    /\ without_lookup_table[<<strip(last.query), last.direction, last.fault>>]

\* C29 as claimed: a forward translate call without a cache entry, the
\* collaborator raising nothing, returns None when none of its lookups succeeds
C29_NoneWithoutLookup ==
    (forward_without_lookup /\ last.fault = {}) => last.out.ret = "none"

\* C29: a forward translate call without a cache entry none of whose lookups
\* succeeds returns no result unless a compound rule or a pattern rule has
\* matched: the compound result of two untranslated parts has confidence
\* 0.255, and no other stage builds a result from untranslated pieces alone
C29_OnlyRuleStagesWithoutLookup ==
    forward_without_lookup =>
        \/ last.out.ret # "result"
        \/ /\ last.out.res.method = "compound"
           /\ last.out.res.confidence = Q(51, 200)
        \/ last.out.res.method = "pattern"

\* C29: 'zzz qqq' has gone through every stage with no lookup succeeding and
\* None has been returned
C29_Witness ==
    /\ forward_without_lookup
    /\ last.query = Q_zzz_qqq
    /\ "word_by_word" \in {last.out.stages[i] : i \in DOMAIN last.out.stages}
    /\ last.out.ret = "none"

\* C30: an engine constructed when add_feedback has just saved the cache
\* loads a cache equal to the one saved, so every translate call that
\* returned an entry of the cache before returns the same after, and the
\* entry a negative feedback has removed is absent
C30_RestartKeepsCache ==
    [][(last'.op = "restart" /\ last.op = "add_feedback" /\ last.io = "ok") =>
          (/\ adaptive_cache' = adaptive_cache
           /\ \A q \in FeedbackQueries, d \in Directions :
                 resolve_result(adaptive_cache, q, d)[2].method = "adaptive_cache" =>
                    resolve_result(adaptive_cache', q, d)
                        = resolve_result(adaptive_cache, q, d)
           /\ (~last.is_correct =>
                  CacheKey(last.query, last.direction) \notin DOMAIN adaptive_cache'))]_vars

\* C30: the engine has been constructed again after the second positive
\* feedback on 'ami' with the translation '"me"' was saved, and has the entry
C30_Witness ==
    /\ last.op = "restart"
    /\ last.io = "ok"
    /\ last.is_correct
    /\ last.query = Q_ami
    /\ feedback_file.state = "json"
    /\ CacheKey(Q_ami, FORWARD) \in DOMAIN adaptive_cache
    /\ adaptive_cache[CacheKey(Q_ami, FORWARD)] = Entry(T_quoted, 2)

====
